---- MODULE Spec2Model ----
(***************************************************************************)
(* The web5 endpoints of rsky-pds: create_account, pre_direct_writes,      *)
(* direct_writes and index_action, as request handlers running             *)
(* concurrently over the account store, the per-account object store and   *)
(* the sequencer.                                                          *)
(*                                                                         *)
(* Optional values follow Rust's Option: None is <<>> and Some(x) is <<x>>.*)
(***************************************************************************)
EXTENDS Integers, Sequences, FiniteSets, TLC

None == <<>>
Some(x) == <<x>>
Unwrap(o) == o[1]

(***************************************************************************)
(* Bounds of the model and constants of the program.                       *)
(***************************************************************************)
MaxRequests == 4
MAX_WRITES == 200
COMMIT_VERSION == 3

Procs == {"p1", "p2"}
DIDs == {"did:a", "did:b"}
Handles == {"alice", "bob"}
Keys == {"key1", "key2"}
RKeys == {"rk1", "rk2"}
BadVal == "bad"

(***************************************************************************)
(* Content addressing and encodings.                                       *)
(***************************************************************************)
\* The content identifier of a commit: determined by the commit's content.
Cid(c) == [did |-> c.did, rev |-> c.rev, data |-> c.data, prev |-> c.prev, by |-> c.sig.by]

\* Cid::to_string and Cid::from_str: the multibase text of a cid starts with "b".
CidToString(cid) == <<"b", cid>>
CidFromStr(s) == IF Len(s) = 2 /\ s[1] = "b" THEN [ok |-> TRUE, cid |-> s[2]]
                 ELSE [ok |-> FALSE, cid |-> None]

\* serde_ipld_dagcbor::to_vec of an unsigned commit, hex encoded: the map's
\* entries in DAG-CBOR's canonical key order.
EncodeCommit(u) == <<"did", u.did, "rev", u.rev, "data", u.data, "prev", u.prev,
                     "version", u.version>>

\* A signature made with key k over the bytes b, and its verification.
Sign(k, b) == [by |-> k, over |-> b]
VerifySignature(key, bytes, sig) == sig.by = key /\ sig.over = bytes

(***************************************************************************)
(* Write batches.                                                          *)
(***************************************************************************)
Create(k, v) == [op |-> "create", rkey |-> k, value |-> v]
Update(k, v) == [op |-> "update", rkey |-> Some(k), value |-> v]
Delete(k) == [op |-> "delete", rkey |-> Some(k), value |-> BadVal]

\* A batch of n operations on one record: a create followed by updates.
LongBatch(n) == [i \in 1..n |-> IF i = 1 THEN Create(Some("rk2"), "v1")
                                ELSE Update("rk2", IF i % 2 = 0 THEN "v2" ELSE "v1")]

\* The batches clients send: a create without a record key, and a batch whose
\* second operation needs a record to be there.
Batches == { <<Create(None, "v1")>>,
             <<Create(Some("rk2"), "v1"), Delete("rk1")>> }

\* Batches at the size limit.
LimitBatches == { LongBatch(MAX_WRITES), LongBatch(MAX_WRITES + 1) }

EmptyRecords == [k \in RKeys |-> None]

\* The positions of the creates that carry no record key.
KeylessIdx(writes) == {i \in DOMAIN writes : writes[i].op = "create" /\ writes[i].rkey = None}

(***************************************************************************)
(* Write preparation (repo::prepare) and the object store's two verbs      *)
(* (ActorStore::generate_commit, ActorStore::verify_writes), with          *)
(* ActorStore::web5_create_repo and ActorStore::destroy.                   *)
(***************************************************************************)
\* prepare_create / prepare_update / prepare_delete on one operation. g is the
\* key generated for a create that carries none. The record's shape is checked
\* unless the caller passed validate = Some(false).
PrepareWrite(w, g, validate) ==
    IF w.op # "delete" /\ w.value = BadVal /\ validate # Some(FALSE)
    THEN [ok |-> FALSE, write |-> None]
    ELSE [ok |-> TRUE,
          write |-> [op |-> w.op,
                     rkey |-> IF w.rkey = None THEN g ELSE Unwrap(w.rkey),
                     value |-> w.value]]

\* The handlers' stream over the batch, collected into one Result: the first
\* operation that fails to prepare fails the whole batch.
PrepareWrites(writes, gen, validate) ==
    LET one(i) == PrepareWrite(writes[i], IF i \in DOMAIN gen THEN gen[i] ELSE "rk1", validate)
    IN IF \E i \in DOMAIN writes : ~one(i).ok
       THEN [ok |-> FALSE, writes |-> <<>>]
       ELSE [ok |-> TRUE, writes |-> [i \in DOMAIN writes |-> one(i).write]]

\* A variant of ApplyWrite that skips a write it cannot apply.
ApplyWriteLenient(records, w) ==
    LET present == records[w.rkey] # None
    IN IF (w.op = "create") = present THEN [ok |-> TRUE, records |-> records]
       ELSE [ok |-> TRUE,
             records |-> [records EXCEPT ![w.rkey] = IF w.op = "delete" THEN None
                                                     ELSE Some(w.value)]]

\* One prepared write on the records: a create of a present record, or an
\* update or delete of an absent one, fails.
ApplyWrite(records, w) ==
    LET present == records[w.rkey] # None
    IN IF (w.op = "create") = present THEN [ok |-> FALSE, records |-> records]
       ELSE [ok |-> TRUE,
             records |-> [records EXCEPT ![w.rkey] = IF w.op = "delete" THEN None
                                                     ELSE Some(w.value)]]

\* The records after the prepared writes pw[lo..hi] are applied in order: the
\* first half, then the second half on what the first left; the first write
\* that fails fails them all.
RECURSIVE ApplyRange(_, _, _, _)
ApplyRange(records, pw, lo, hi) ==
    IF lo > hi THEN [ok |-> TRUE, records |-> records]
    ELSE IF lo = hi THEN ApplyWrite(records, pw[lo])
    ELSE LET mid == (lo + hi) \div 2
             left == ApplyRange(records, pw, lo, mid)
         IN IF ~left.ok THEN left ELSE ApplyRange(left.records, pw, mid + 1, hi)

ApplyWrites(records, pw) ==
    LET r == ApplyRange(records, pw, 1, Len(pw))
    IN IF r.ok THEN r ELSE [ok |-> FALSE, records |-> records]

HeadCommit(repo) == repo.commits[Len(repo.commits)]
HeadCid(repo) == Cid(HeadCommit(repo))

\* A variant of NextRev that keeps the revision.
NextRevSame(r) == r

\* The next revision after r.
NextRev(r) == r + 1

NoCommit == [did |-> "", version |-> 0, data |-> EmptyRecords, rev |-> 0, prev |-> None]

\* A variant of GenerateCommit that links the commit to the swap commit it
\* was given instead of the stored head.
GenerateCommitUnlinked(store_d, did, pw, swap) ==
    IF store_d = None THEN [err |-> "RepoNotFound", commit |-> NoCommit]
    ELSE LET repo == Unwrap(store_d)
             app == ApplyWrites(repo.records, pw)
         IN IF swap # None /\ Unwrap(swap) # HeadCid(repo)
            THEN [err |-> "SwapMismatch", commit |-> NoCommit]
            ELSE IF ~app.ok THEN [err |-> "InvalidWrite", commit |-> NoCommit]
            ELSE [err |-> "ok",
                  commit |-> [did |-> did, version |-> COMMIT_VERSION, data |-> app.records,
                              rev |-> NextRev(HeadCommit(repo).rev),
                              prev |-> swap]]

\* generate_unsigned: the unsigned commit for the prepared writes pw on top of
\* the stored repository, with the next revision; nothing is stored.
GenerateCommit(store_d, did, pw, swap) ==
    IF store_d = None THEN [err |-> "RepoNotFound", commit |-> NoCommit]
    ELSE LET repo == Unwrap(store_d)
             app == ApplyWrites(repo.records, pw)
         IN IF swap # None /\ Unwrap(swap) # HeadCid(repo)
            THEN [err |-> "SwapMismatch", commit |-> NoCommit]
            ELSE IF ~app.ok THEN [err |-> "InvalidWrite", commit |-> NoCommit]
            ELSE [err |-> "ok",
                  commit |-> [did |-> did, version |-> COMMIT_VERSION, data |-> app.records,
                              rev |-> NextRev(HeadCommit(repo).rev),
                              prev |-> Some(HeadCid(repo))]]

Signed(u, sig) == [did |-> u.did, version |-> u.version, data |-> u.data, rev |-> u.rev,
                   prev |-> u.prev, sig |-> sig]

\* A variant of VerifyWrites that stores the commit without verifying its
\* signature.
VerifyWritesUnchecked(store_d, did, pw, swap, key, root) ==
    LET g == GenerateCommit(store_d, did, pw, swap)
    IN IF g.err # "ok" THEN [err |-> g.err, commit |-> NoCommit, store |-> store_d]
       ELSE LET c == Signed(g.commit, root.signed_bytes)
            IN [err |-> "ok", commit |-> c,
                store |-> Some([commits |-> Append(Unwrap(store_d).commits, c),
                                records |-> c.data])]

\* apply_signed: the unsigned commit is recomputed from the stored repository
\* and the writes, the swap is compared, the signature is verified, and only
\* then the repository after the apply is produced: every write and the new
\* commit, or an error and no change.
VerifyWrites(store_d, did, pw, swap, key, root) ==
    LET g == GenerateCommit(store_d, did, pw, swap)
    IN IF g.err # "ok" THEN [err |-> g.err, commit |-> NoCommit, store |-> store_d]
       ELSE IF ~VerifySignature(key, EncodeCommit(g.commit), root.signed_bytes)
       THEN [err |-> "CryptoError", commit |-> NoCommit, store |-> store_d]
       ELSE LET c == Signed(g.commit, root.signed_bytes)
            IN [err |-> "ok", commit |-> c,
                store |-> Some([commits |-> Append(Unwrap(store_d).commits, c),
                                records |-> c.data])]

\* The first commit of a repository: no records, no previous commit.
InitialCommit(did, rev) ==
    [did |-> did, version |-> COMMIT_VERSION, data |-> EmptyRecords, rev |-> rev, prev |-> None]

\* web5_create_repo: fails when the identity already has a repository or the
\* root's signature does not verify; otherwise the repository holds the signed
\* first commit.
CreateRepo(store_d, key, root) ==
    LET u == InitialCommit(root.did, root.rev)
    IN IF store_d # None THEN [err |-> "RepoExists", commit |-> NoCommit, store |-> store_d]
       ELSE IF ~VerifySignature(key, EncodeCommit(u), root.signed_bytes)
       THEN [err |-> "CryptoError", commit |-> NoCommit, store |-> store_d]
       ELSE LET c == Signed(u, root.signed_bytes)
            IN [err |-> "ok", commit |-> c,
                store |-> Some([commits |-> <<c>>, records |-> EmptyRecords])]

\* The root a client sends back: the unsigned commit it was handed, with its
\* signature over the bytes it signed.
SignedRoot(u, sig) == [did |-> u.did, rev |-> u.rev, data |-> u.data, prev |-> u.prev,
                       version |-> u.version, signed_bytes |-> sig]

(***************************************************************************)
(* State.                                                                  *)
(***************************************************************************)
VARIABLES
    accounts,     \* account store: did -> Option of the account record
    store,        \* object store: did -> Option of [commits, records]
    seqLog,       \* the sequencer's log: a sequence of events
    nextSeq,      \* the sequencer's counter
    lock,         \* holder of the sequencer's write lock: Option of a task
    req,          \* task -> the request it is handling and its locals
    resp,         \* the response being sent: Option of an outcome
    started,      \* number of requests started so far
    descriptors,  \* unsigned commits handed out: [head, writes, swap, out]
    sessions,     \* did -> number of access/refresh credential pairs issued
    call          \* the library call being evaluated: [fn, args, out]

vars == <<accounts, store, seqLog, nextSeq, lock, req, resp, started, descriptors, sessions,
          call>>

Account(did, handle, addr, deactivated, cid, rev) ==
    [did |-> did, handle |-> Some(handle), ckb_address |-> Some(addr),
     deactivated |-> deactivated, repo_cid |-> cid, repo_rev |-> rev]

\* AccountManager::get_account by handle or DID.
GetAccount(accts, ident) ==
    LET m == {d \in DIDs : accts[d] # None
                           /\ (d = ident \/ Unwrap(accts[d]).handle = Some(ident))}
    IN IF m = {} THEN None ELSE accts[CHOOSE d \in m : TRUE]

Event(seq, kind, did, status, commit) ==
    [seq |-> seq, kind |-> kind, did |-> did, status |-> status, commit |-> commit]

\* A task with no request, and the fields of a request in flight: its locals,
\* then what it did so far.
Idle == [kind |-> "none", pc |-> "idle", did |-> "", handle |-> "", addr |-> "",
         key |-> "", root |-> None, raw |-> <<>>, writes |-> <<>>, swap |-> None,
         commit |-> None,
         nwrites |-> 0, prepared |-> FALSE, swapIn |-> None, headAtStart |-> None,
         applyErr |-> "none", headAtApply |-> None, emitted |-> <<>>,
         index |-> "", message |-> <<>>, signed_bytes |-> None, now |-> 0,
         resolved |-> None, auth |-> None, done |-> <<>>]

\* The outcome of the request r that returns res.
Outcome(r, res) ==
    [kind |-> r.kind, did |-> r.did, result |-> res, nwrites |-> r.nwrites,
     prepared |-> r.prepared, swapIn |-> r.swapIn, headAtStart |-> r.headAtStart,
     applyErr |-> r.applyErr, headAtApply |-> r.headAtApply, emitted |-> r.emitted,
     index |-> r.index, done |-> r.done, resolved |-> r.resolved]

\* The handler of task p returns: its locals are dropped, the response goes out.
Reply(p, outcome) ==
    /\ req' = [req EXCEPT ![p] = Idle]
    /\ resp' = Some(outcome)
    /\ UNCHANGED call

\* The handler of task p goes on to its next await with the locals r.
Goes(p, r) ==
    /\ req' = [req EXCEPT ![p] = r]
    /\ resp' = None
    /\ UNCHANGED call

\* A request that fails before it holds any local.
Rejected(kind, res) == Outcome([Idle EXCEPT !.kind = kind], res)

CanStart(p) == resp = None /\ req[p].pc = "idle" /\ started < MaxRequests

At(p, kind, pc) == resp = None /\ req[p].kind = kind /\ req[p].pc = pc

\* The response leaves the server.
Respond ==
    /\ resp # None
    /\ resp' = None
    /\ UNCHANGED <<accounts, store, seqLog, nextSeq, lock, req, started, descriptors, sessions,
                   call>>

GenesisKey == "key1"
GenesisCommit ==
    LET u == InitialCommit("did:a", 1)
    IN Signed(u, Sign(GenesisKey, EncodeCommit(u)))

\* No library call is being evaluated on its own.
NoCall == [fn |-> "none", args |-> [none |-> TRUE], out |-> None]

\* did:a has an account created by an earlier create_account; did:b has none.
ServerInit ==
    /\ accounts = [d \in DIDs |->
                     IF d = "did:a"
                     THEN Some(Account(d, "alice", "ckb1", FALSE, Cid(GenesisCommit), 1))
                     ELSE None]
    /\ store = [d \in DIDs |->
                  IF d = "did:a"
                  THEN Some([commits |-> <<GenesisCommit>>, records |-> EmptyRecords])
                  ELSE None]
    /\ seqLog = << Event(1, "identity", "did:a", "", None),
                   Event(2, "account", "did:a", "active", None),
                   Event(3, "commit", "did:a", "", Some(Cid(GenesisCommit))),
                   Event(4, "sync", "did:a", "", Some(Cid(GenesisCommit))) >>
    /\ nextSeq = 5
    /\ lock = None
    /\ req = [p \in Procs |-> Idle]
    /\ resp = None
    /\ started = 0
    /\ descriptors = {}
    /\ sessions = [d \in DIDs |-> 0]

Init == ServerInit /\ call = NoCall

(***************************************************************************)
(* Inputs of the requests.                                                 *)
(***************************************************************************)
\* alsoKnownAs entries: the scheme prefix and the rest of the string.
AkaInputs == { <<>>, << <<"at://", "alice">> >>, << <<"https://", "alice">> >>,
               << <<"at://", "bob">> >> }
Docs == [also_known_as : AkaInputs, verification_methods : {{"key1"}}]
GoodDoc == [tag |-> "Ok", doc |-> [also_known_as |-> << <<"at://", "alice">> >>,
                                   verification_methods |-> {"key1"}]]
ResolverOutcomes ==
    {[tag |-> "Ok", doc |-> d] : d \in Docs}
    \cup {[tag |-> t, doc |-> None] :
             t \in {"CkbDidocCellNotFound", "CkbAddrNoCell", "InvalidCkbError"}}

\* The swapCommit strings a client may send: none, the text of a commit of the
\* repository it has seen, or text that is no cid.
SwapInputs(ident) ==
    LET a == GetAccount(accounts, ident)
        repo == IF a = None THEN None ELSE store[Unwrap(a).did]
    IN {None, Some(<<"garbage">>)}
       \cup (IF repo = None THEN {}
             ELSE {Some(CidToString(Cid(Unwrap(repo).commits[i]))) :
                      i \in DOMAIN Unwrap(repo).commits})

\* The signed roots a client may send: an unsigned commit it was handed,
\* signed with one of its keys.
RootInputs == {SignedRoot(d.out, Sign(k, d.out.un_sign_bytes)) : d \in descriptors, k \in Keys}

\* The requests of a well-behaved client of did:a, whose storage any step may fail.
WriteEnv == [batches |-> Batches, repos |-> {"alice"}, addrs |-> {Some("ckb1")},
             resolver |-> {GoodDoc}, keys |-> {"key1"},
             auths |-> {Some([did |-> Some("did:a")])}, dbFails |-> {FALSE},
             validates |-> {None}]

\* The same client sending batches at the size limit, and a record of a wrong
\* shape.
LimitEnv == [WriteEnv EXCEPT !.batches = LimitBatches \cup { <<Create(Some("rk1"), BadVal)>> }]

(***************************************************************************)
(* pre_direct_writes.                                                      *)
(***************************************************************************)
\* A variant of SwapCommitCid that parses the swap commit and hands none on.
SwapCommitCidDropped(swapStr) ==
    IF swapStr = None THEN [ok |-> TRUE, cid |-> None]
    ELSE LET c == CidFromStr(Unwrap(swapStr)) IN [ok |-> c.ok, cid |-> None]

\* The swap commit the handlers hand to the object store: the parsed cid.
SwapCommitCid(swapStr) ==
    IF swapStr = None THEN [ok |-> TRUE, cid |-> None]
    ELSE LET c == CidFromStr(Unwrap(swapStr)) IN [ok |-> c.ok, cid |-> Some(c.cid)]

\* The checks of inner_pre_writes on the fetched account, in order.
PreWritesChecks(account, auth) ==
    IF account = None THEN "CouldNotFindRepo"
    ELSE IF Unwrap(account).deactivated THEN "AccountDeactivated"
    ELSE IF auth = None THEN "AuthRequired"
    ELSE IF Unwrap(auth).did = None THEN "AuthDidRequired"
    ELSE IF Unwrap(account).did # Unwrap(Unwrap(auth).did) THEN "DidInconsistent"
    ELSE "ok"

\* A variant of TooManyWrites that is off by one.
TooManyWritesOffByOne(writes) == Len(writes) > MAX_WRITES + 1

\* writes.len() > 200
TooManyWrites(writes) == Len(writes) > MAX_WRITES

\* The head of the repository of did, if there is one.
LiveHead(did) == IF store[did] = None THEN None ELSE Some(HeadCid(Unwrap(store[did])))

\* The request arrives; the account is fetched and checked, the writes are
\* prepared and the swap commit is parsed.
PreStart(p, in) ==
    /\ CanStart(p)
    /\ started' = started + 1
    /\ UNCHANGED <<accounts, store, seqLog, nextSeq, lock, descriptors, sessions>>
    /\ LET kind == "pre_direct_writes"
           rej(res) == Reply(p, Rejected(kind, res))
       IN \E repo \in in.repos, dbFail \in in.dbFails :
          LET account == GetAccount(accounts, repo)
          IN IF dbFail THEN rej("DbError")
             ELSE \E auth \in in.auths :
               IF PreWritesChecks(account, auth) # "ok"
               THEN rej(PreWritesChecks(account, auth))
               ELSE \E raw \in in.batches :
                 LET sized == [Idle EXCEPT !.kind = kind, !.did = Unwrap(account).did,
                                           !.nwrites = Len(raw)]
                 IN IF TooManyWrites(raw) THEN Reply(p, Outcome(sized, "TooManyWrites"))
                    ELSE \E validate \in in.validates,
                            gen \in [KeylessIdx(raw) -> RKeys],
                            swapStr \in SwapInputs(repo) :
                      LET prep == PrepareWrites(raw, gen, validate)
                          swap == SwapCommitCid(swapStr)
                          r == [sized EXCEPT !.prepared = TRUE, !.swapIn = swapStr,
                                             !.headAtStart = LiveHead(sized.did)]
                      IN IF ~prep.ok THEN Reply(p, Outcome(r, "PrepareError"))
                         ELSE IF ~swap.ok THEN Reply(p, Outcome(r, "SwapCommitConvertError"))
                         ELSE Goes(p, [r EXCEPT !.pc = "generate", !.raw = raw,
                                                !.auth = auth,
                                                !.writes = prep.writes, !.swap = swap.cid])

\* A variant of PreGenerate that leaves the prepared writes in the store.
PreGeneratePersists(p) ==
    /\ At(p, "pre_direct_writes", "generate")
    /\ UNCHANGED <<accounts, seqLog, nextSeq, lock, started, sessions>>
    /\ LET r == req[p]
           g == GenerateCommit(store[r.did], r.did, r.writes, r.swap)
           out == [did |-> g.commit.did, rev |-> g.commit.rev, data |-> g.commit.data,
                   prev |-> g.commit.prev, version |-> g.commit.version,
                   un_sign_bytes |-> EncodeCommit(g.commit)]
           seen == [r EXCEPT !.applyErr = g.err, !.headAtApply = LiveHead(r.did)]
       IN IF g.err # "ok"
          THEN /\ Reply(p, Outcome(seen, g.err))
               /\ UNCHANGED <<descriptors, store>>
          ELSE /\ Reply(p, Outcome(seen, "ok"))
               /\ store' = [store EXCEPT ![r.did] =
                               Some([Unwrap(store[r.did]) EXCEPT !.records = g.commit.data])]
               /\ descriptors' = descriptors \cup
                     {[head |-> HeadCid(Unwrap(store[r.did])), writes |-> r.raw,
                       swap |-> r.swapIn, out |-> out]}

\* ActorStore::generate_commit, the encoding of its result, the response.
PreGenerate(p) ==
    /\ At(p, "pre_direct_writes", "generate")
    /\ UNCHANGED <<accounts, store, seqLog, nextSeq, lock, started, sessions>>
    /\ LET r == req[p]
           g == GenerateCommit(store[r.did], r.did, r.writes, r.swap)
           out == [did |-> g.commit.did, rev |-> g.commit.rev, data |-> g.commit.data,
                   prev |-> g.commit.prev, version |-> g.commit.version,
                   un_sign_bytes |-> EncodeCommit(g.commit)]
           seen == [r EXCEPT !.applyErr = g.err, !.headAtApply = LiveHead(r.did)]
       IN IF g.err # "ok"
          THEN /\ Reply(p, Outcome(seen, g.err))
               /\ UNCHANGED descriptors
          ELSE /\ Reply(p, Outcome(seen, "ok"))
               /\ descriptors' = descriptors \cup
                     {[head |-> HeadCid(Unwrap(store[r.did])), writes |-> r.raw,
                       swap |-> r.swapIn, out |-> out]}

(***************************************************************************)
(* direct_writes.                                                          *)
(***************************************************************************)
\* The address of the request against the account's.
AddressCheck(account, ckb_addr) ==
    IF Unwrap(account).ckb_address # Some(ckb_addr) THEN "AddressInconsistent" ELSE "ok"

\* A variant of DidDocChecks that takes any signing key.
DidDocChecksAnyKey(account, resolved, signing_key) ==
    IF resolved.tag # "Ok" THEN resolved.tag
    ELSE IF Len(resolved.doc.also_known_as) = 0
            \/ resolved.doc.also_known_as[1][1] # "at://" THEN "IncompatibleDidDoc"
    ELSE IF Unwrap(account).handle = None
            \/ Unwrap(Unwrap(account).handle) # resolved.doc.also_known_as[1][2]
         THEN "InvalidHandle"
    ELSE "ok"

\* The resolved document against the account's handle and the request's key.
DidDocChecks(account, resolved, signing_key) ==
    IF resolved.tag # "Ok" THEN resolved.tag
    ELSE IF Len(resolved.doc.also_known_as) = 0
            \/ resolved.doc.also_known_as[1][1] # "at://" THEN "IncompatibleDidDoc"
    ELSE IF Unwrap(account).handle = None
            \/ Unwrap(Unwrap(account).handle) # resolved.doc.also_known_as[1][2]
         THEN "InvalidHandle"
    ELSE IF signing_key \notin resolved.doc.verification_methods THEN "SigningKeyInconsistent"
    ELSE "ok"

\* The account's state and the authenticated DID.
AuthChecks(account, auth) ==
    IF Unwrap(account).deactivated THEN "AccountDeactivated"
    ELSE IF auth = None THEN "AuthRequired"
    ELSE IF Unwrap(auth).did = None THEN "AuthDidRequired"
    ELSE IF Unwrap(account).did # Unwrap(Unwrap(auth).did) THEN "DidInconsistent"
    ELSE "ok"

\* The request arrives; the account is fetched, the identity is resolved and
\* checked against it, the writes are prepared and the swap commit is parsed.
DwStart(p, in) ==
    /\ CanStart(p)
    /\ started' = started + 1
    /\ UNCHANGED <<accounts, store, seqLog, nextSeq, lock, descriptors, sessions>>
    /\ LET kind == "direct_writes"
           rej(res) == Reply(p, Rejected(kind, res))
       IN \E addr \in in.addrs :
          IF addr = None THEN rej("CkbAddrNotFound")
          ELSE \E repo \in in.repos, dbFail \in in.dbFails :
            LET account == GetAccount(accounts, repo)
            IN IF dbFail THEN rej("DbError")
               ELSE IF account = None THEN rej("CouldNotFindRepo")
               ELSE IF AddressCheck(account, Unwrap(addr)) # "ok"
               THEN rej(AddressCheck(account, Unwrap(addr)))
               ELSE \E resolved \in in.resolver, key \in in.keys :
                 IF DidDocChecks(account, resolved, key) # "ok"
                 THEN rej(DidDocChecks(account, resolved, key))
                 ELSE \E auth \in in.auths :
                   IF AuthChecks(account, auth) # "ok"
                   THEN rej(AuthChecks(account, auth))
                   ELSE \E raw \in in.batches :
                     LET sized == [Idle EXCEPT !.kind = kind, !.did = Unwrap(account).did,
                                               !.nwrites = Len(raw)]
                     IN IF TooManyWrites(raw) THEN Reply(p, Outcome(sized, "TooManyWrites"))
                        ELSE \E validate \in in.validates,
                                gen \in [KeylessIdx(raw) -> RKeys],
                                swapStr \in SwapInputs(repo), root \in RootInputs :
                          LET prep == PrepareWrites(raw, gen, validate)
                              swap == SwapCommitCid(swapStr)
                              r == [sized EXCEPT !.prepared = TRUE, !.swapIn = swapStr,
                                                 !.headAtStart = LiveHead(sized.did)]
                          IN IF ~prep.ok THEN Reply(p, Outcome(r, "PrepareError"))
                             ELSE IF ~swap.ok
                             THEN Reply(p, Outcome(r, "SwapCommitConvertError"))
                             ELSE Goes(p, [r EXCEPT !.pc = "verify", !.key = key,
                                                    !.addr = Unwrap(addr),
                                                    !.resolved = Some(resolved),
                                                    !.auth = auth,
                                                    !.root = Some(root),
                                                    !.writes = prep.writes,
                                                    !.swap = swap.cid])

\* A variant of DwVerifyWrites that compares the swap commit with the head
\* read when the request arrived.
DwVerifyWritesStaleHead(p) ==
    /\ At(p, "direct_writes", "verify")
    /\ UNCHANGED <<accounts, seqLog, nextSeq, lock, started, descriptors, sessions>>
    /\ LET r == req[p]
           swap == IF r.swap = r.headAtStart THEN LiveHead(r.did) ELSE r.swap
           v == VerifyWrites(store[r.did], r.did, r.writes, swap, r.key, Unwrap(r.root))
           seen(err) == [r EXCEPT !.applyErr = err, !.headAtApply = LiveHead(r.did)]
       IN \E storageFail \in BOOLEAN :
            IF v.err # "ok"
            THEN /\ Reply(p, Outcome(seen(v.err), v.err))
                 /\ UNCHANGED store
            ELSE IF storageFail
            THEN /\ Reply(p, Outcome(seen("StorageError"), "StorageError"))
                 /\ UNCHANGED store
            ELSE /\ store' = [store EXCEPT ![r.did] = v.store]
                 /\ Goes(p, [seen("ok") EXCEPT !.pc = "lock", !.commit = Some(v.commit),
                                               !.key = "", !.root = None, !.writes = <<>>,
                                               !.swap = None])

\* ActorStore::verify_writes: the apply step.
DwVerifyWrites(p) ==
    /\ At(p, "direct_writes", "verify")
    /\ UNCHANGED <<accounts, seqLog, nextSeq, lock, started, descriptors, sessions>>
    /\ LET r == req[p]
           v == VerifyWrites(store[r.did], r.did, r.writes, r.swap, r.key, Unwrap(r.root))
           seen(err) == [r EXCEPT !.applyErr = err, !.headAtApply = LiveHead(r.did)]
       IN \E storageFail \in BOOLEAN :
            IF v.err # "ok"
            THEN /\ Reply(p, Outcome(seen(v.err), v.err))
                 /\ UNCHANGED store
            ELSE IF storageFail
            THEN /\ Reply(p, Outcome(seen("StorageError"), "StorageError"))
                 /\ UNCHANGED store
            ELSE /\ store' = [store EXCEPT ![r.did] = v.store]
                 /\ Goes(p, [seen("ok") EXCEPT !.pc = "lock", !.commit = Some(v.commit),
                                               !.key = "", !.root = None, !.writes = <<>>,
                                               !.swap = None])

\* A variant of DwAcquire that does not wait for the lock.
DwAcquireNoWait(p) ==
    /\ At(p, "direct_writes", "lock")
    /\ lock' = Some(p)
    /\ Goes(p, [req[p] EXCEPT !.pc = "seq_commit"])
    /\ UNCHANGED <<accounts, store, seqLog, nextSeq, started, descriptors, sessions>>

\* sequencer.sequencer.write().await
DwAcquire(p) ==
    /\ At(p, "direct_writes", "lock")
    /\ lock = None
    /\ lock' = Some(p)
    /\ Goes(p, [req[p] EXCEPT !.pc = "seq_commit"])
    /\ UNCHANGED <<accounts, store, seqLog, nextSeq, started, descriptors, sessions>>

\* An append to the sequencer by task p: the event gets the next sequence number.
Append1(p, kind, status, commit) ==
    /\ seqLog' = Append(seqLog, Event(nextSeq, kind, req[p].did, status, commit))
    /\ nextSeq' = nextSeq + 1

Emitted(p, kind) == Append(req[p].emitted, [kind |-> kind, seq |-> nextSeq])

\* A variant of DwSequenceCommit that goes on to the root update when the
\* append fails.
DwSequenceCommitGoesOn(p) ==
    /\ At(p, "direct_writes", "seq_commit")
    /\ UNCHANGED <<accounts, store, started, descriptors, sessions, lock>>
    /\ \E fail \in BOOLEAN :
         IF fail
         THEN /\ Goes(p, [req[p] EXCEPT !.pc = "update_root"])
              /\ UNCHANGED <<seqLog, nextSeq>>
         ELSE /\ Append1(p, "commit", "", Some(Cid(Unwrap(req[p].commit))))
              /\ Goes(p, [req[p] EXCEPT !.pc = "update_root",
                                        !.emitted = Emitted(p, "commit")])

\* A variant of DwSequenceCommit that announces the commit with a sync event
\* instead.
DwSequenceCommitAsSync(p) ==
    /\ At(p, "direct_writes", "seq_commit")
    /\ UNCHANGED <<accounts, store, started, descriptors, sessions>>
    /\ \E fail \in BOOLEAN :
         IF fail
         THEN /\ Reply(p, Outcome(req[p], "SequencerError"))
              /\ lock' = None
              /\ UNCHANGED <<seqLog, nextSeq>>
         ELSE /\ Append1(p, "sync", "", Some(Cid(Unwrap(req[p].commit))))
              /\ Goes(p, [req[p] EXCEPT !.pc = "update_root",
                                        !.emitted = Emitted(p, "sync")])
              /\ UNCHANGED lock

\* lock.sequence_commit(did, commit).await?
DwSequenceCommit(p) ==
    /\ At(p, "direct_writes", "seq_commit")
    /\ UNCHANGED <<accounts, store, started, descriptors, sessions>>
    /\ \E fail \in BOOLEAN :
         IF fail
         THEN /\ Reply(p, Outcome(req[p], "SequencerError"))
              /\ lock' = None
              /\ UNCHANGED <<seqLog, nextSeq>>
         ELSE /\ Append1(p, "commit", "", Some(Cid(Unwrap(req[p].commit))))
              /\ Goes(p, [req[p] EXCEPT !.pc = "update_root",
                                        !.emitted = Emitted(p, "commit")])
              /\ UNCHANGED lock

\* A variant of UpdateRepoRoot that sets the cid and keeps the revision.
UpdateRepoRootKeepsRev(accts, did, cid, rev) ==
    IF accts[did] = None THEN accts
    ELSE [accts EXCEPT ![did] = Some([Unwrap(accts[did]) EXCEPT !.repo_cid = cid])]

\* AccountManager::update_repo_root: the account's root pointer is set.
UpdateRepoRoot(accts, did, cid, rev) ==
    IF accts[did] = None THEN accts
    ELSE [accts EXCEPT ![did] = Some([Unwrap(accts[did]) EXCEPT !.repo_cid = cid,
                                                               !.repo_rev = rev])]

\* A variant of DwUpdateRepoRoot whose error return keeps the lock guard.
DwUpdateRepoRootKeepsLock(p) ==
    /\ At(p, "direct_writes", "update_root")
    /\ UNCHANGED <<store, seqLog, nextSeq, started, descriptors, sessions>>
    /\ \E fail \in BOOLEAN :
         IF fail
         THEN /\ Reply(p, Outcome(req[p], "DbError"))
              /\ UNCHANGED <<accounts, lock>>
         ELSE /\ accounts' = UpdateRepoRoot(accounts, req[p].did,
                                            Cid(Unwrap(req[p].commit)),
                                            Unwrap(req[p].commit).rev)
              /\ lock' = None
              /\ Reply(p, Outcome(req[p], "ok"))

\* account_manager.update_repo_root(...).await?, then the response; the lock
\* guard is dropped when the handler returns.
DwUpdateRepoRoot(p) ==
    /\ At(p, "direct_writes", "update_root")
    /\ UNCHANGED <<store, seqLog, nextSeq, started, descriptors, sessions>>
    /\ lock' = None
    /\ \E fail \in BOOLEAN :
         IF fail
         THEN /\ Reply(p, Outcome(req[p], "DbError"))
              /\ UNCHANGED accounts
         ELSE /\ accounts' = UpdateRepoRoot(accounts, req[p].did,
                                            Cid(Unwrap(req[p].commit)),
                                            Unwrap(req[p].commit).rev)
              /\ Reply(p, Outcome(req[p], "ok"))

(***************************************************************************)
(* create_account.                                                         *)
(***************************************************************************)
\* AccountManager::create_account: the identity, the handle and the address
\* must be free.
CreateAccountRecord(accts, did, handle, addr, cid, rev) ==
    IF accts[did] # None
       \/ \E d \in DIDs : accts[d] # None
                          /\ (Unwrap(accts[d]).handle = Some(handle)
                              \/ Unwrap(accts[d]).ckb_address = Some(addr))
    THEN [ok |-> FALSE, accounts |-> accts]
    ELSE [ok |-> TRUE,
          accounts |-> [accts EXCEPT ![did] = Some(Account(did, handle, addr, FALSE, cid, rev))]]

\* The accounts a client asks for: a new identity, or one that has a
\* repository already; a free handle or a taken one; either signer.
CreateEnv == [resolver |-> ResolverOutcomes, dids |-> DIDs, handles |-> Handles,
              addrs |-> {"ckb2"}, keys |-> {"key1"}, signers |-> Keys]

\* A variant of CaStart that goes on whenever the resolver returns no
\* document.
CaStartAnyError(p, in) ==
    /\ CanStart(p)
    /\ started' = started + 1
    /\ UNCHANGED <<accounts, store, seqLog, nextSeq, lock, descriptors, sessions>>
    /\ \E resolved \in in.resolver :
         LET kind == "create_account"
             rej(res) == Reply(p, Outcome([Idle EXCEPT !.kind = kind,
                                                      !.resolved = Some(resolved)], res))
         IN IF resolved.tag = "Ok" THEN rej("AlreadyApplyDid")
            ELSE \E did \in in.dids, handle \in in.handles, addr \in in.addrs,
                    key \in in.keys, signer \in in.signers :
                   LET u == InitialCommit(did, 1)
                   IN Goes(p, [Idle EXCEPT !.kind = kind, !.pc = "create_repo",
                                           !.did = did, !.handle = handle, !.addr = addr,
                                           !.key = key, !.resolved = Some(resolved),
                                           !.root = Some(SignedRoot(u, Sign(signer,
                                                                    EncodeCommit(u))))])

\* The request arrives and the identity is resolved: only an address without
\* a DID cell may create an account.
CaStart(p, in) ==
    /\ CanStart(p)
    /\ started' = started + 1
    /\ UNCHANGED <<accounts, store, seqLog, nextSeq, lock, descriptors, sessions>>
    /\ \E resolved \in in.resolver :
         LET kind == "create_account"
             rej(res) == Reply(p, Outcome([Idle EXCEPT !.kind = kind,
                                                      !.resolved = Some(resolved)], res))
         IN IF resolved.tag = "Ok" THEN rej("AlreadyApplyDid")
            ELSE IF resolved.tag # "CkbDidocCellNotFound" THEN rej(resolved.tag)
            ELSE \E did \in in.dids, handle \in in.handles, addr \in in.addrs,
                    key \in in.keys, signer \in in.signers :
                   LET u == InitialCommit(did, 1)
                   IN Goes(p, [Idle EXCEPT !.kind = kind, !.pc = "create_repo",
                                           !.did = did, !.handle = handle, !.addr = addr,
                                           !.key = key, !.resolved = Some(resolved),
                                           !.root = Some(SignedRoot(u, Sign(signer,
                                                                    EncodeCommit(u))))])

\* actor_store.web5_create_repo(root, signing_key, []).await
CaCreateRepo(p) ==
    /\ At(p, "create_account", "create_repo")
    /\ UNCHANGED <<accounts, seqLog, nextSeq, lock, started, descriptors, sessions>>
    /\ LET r == req[p]
           c == CreateRepo(store[r.did], r.key, Unwrap(r.root))
       IN \E storageFail \in BOOLEAN :
            IF c.err # "ok" \/ storageFail
            THEN /\ Goes(p, [r EXCEPT !.pc = "destroy",
                                      !.applyErr = IF c.err # "ok" THEN c.err
                                                   ELSE "StorageError"])
                 /\ UNCHANGED store
            ELSE /\ store' = [store EXCEPT ![r.did] = c.store]
                 /\ Goes(p, [r EXCEPT !.pc = "create_record", !.applyErr = "ok",
                                      !.commit = Some(c.commit), !.key = "", !.root = None])

\* A variant of CaCreateRecord that returns the error and leaves the
\* repository it created.
CaCreateRecordNoRollback(p) ==
    /\ At(p, "create_account", "create_record")
    /\ UNCHANGED <<store, seqLog, nextSeq, lock, started, descriptors, sessions>>
    /\ LET r == req[p]
           c == Unwrap(r.commit)
           a == CreateAccountRecord(accounts, r.did, r.handle, r.addr, Cid(c), c.rev)
       IN \E dbFail \in BOOLEAN :
            IF ~a.ok \/ dbFail
            THEN /\ Reply(p, Outcome(r, "RuntimeError"))
                 /\ UNCHANGED accounts
            ELSE /\ accounts' = a.accounts
                 /\ Goes(p, [r EXCEPT !.pc = "lock", !.handle = "", !.addr = ""])

\* account_manager.create_account(opts).await
CaCreateRecord(p) ==
    /\ At(p, "create_account", "create_record")
    /\ UNCHANGED <<store, seqLog, nextSeq, lock, started, descriptors, sessions>>
    /\ LET r == req[p]
           c == Unwrap(r.commit)
           a == CreateAccountRecord(accounts, r.did, r.handle, r.addr, Cid(c), c.rev)
       IN \E dbFail \in BOOLEAN :
            IF ~a.ok \/ dbFail
            THEN /\ Goes(p, [r EXCEPT !.pc = "destroy"])
                 /\ UNCHANGED accounts
            ELSE /\ accounts' = a.accounts
                 /\ Goes(p, [r EXCEPT !.pc = "lock", !.handle = "", !.addr = ""])

\* actor_store.destroy().await? on the two error paths, then the error.
CaDestroy(p) ==
    /\ At(p, "create_account", "destroy")
    /\ UNCHANGED <<accounts, seqLog, nextSeq, lock, started, descriptors, sessions>>
    /\ \E fail \in BOOLEAN :
         IF fail
         THEN /\ Reply(p, Outcome(req[p], "StorageError"))
              /\ UNCHANGED store
         ELSE /\ store' = [store EXCEPT ![req[p].did] = None]
              /\ Reply(p, Outcome(req[p], "RuntimeError"))

\* sequencer.sequencer.write().await
CaAcquire(p) ==
    /\ At(p, "create_account", "lock")
    /\ lock = None
    /\ lock' = Some(p)
    /\ Goes(p, [req[p] EXCEPT !.pc = "seq_identity"])
    /\ UNCHANGED <<accounts, store, seqLog, nextSeq, started, descriptors, sessions>>

\* A variant of CaEmit that logs a failed append and goes on to the next step.
CaEmitGoesOn(p, pc, kind, status, commit, next) ==
    /\ At(p, "create_account", pc)
    /\ UNCHANGED <<accounts, store, started, descriptors, lock, sessions>>
    /\ \E fail \in BOOLEAN :
         IF fail
         THEN /\ Goes(p, [req[p] EXCEPT !.pc = next])
              /\ UNCHANGED <<seqLog, nextSeq>>
         ELSE /\ Append1(p, kind, status, commit)
              /\ Goes(p, [req[p] EXCEPT !.pc = next, !.emitted = Emitted(p, kind)])

\* One of create_account's appends: on an error the handler returns (and
\* drops the lock guard), otherwise it goes on to the next step.
CaEmit(p, pc, kind, status, commit, next) ==
    /\ At(p, "create_account", pc)
    /\ UNCHANGED <<accounts, store, started, descriptors, sessions>>
    /\ \E fail \in BOOLEAN :
         IF fail
         THEN /\ Reply(p, Outcome(req[p], "RuntimeError"))
              /\ lock' = None
              /\ UNCHANGED <<seqLog, nextSeq>>
         ELSE /\ Append1(p, kind, status, commit)
              /\ Goes(p, [req[p] EXCEPT !.pc = next, !.emitted = Emitted(p, kind)])
              /\ UNCHANGED lock

\* lock.sequence_identity_evt(did, Some(handle)).await
CaSeqIdentity(p) == CaEmit(p, "seq_identity", "identity", "", None, "seq_account")

\* lock.sequence_account_evt(did, AccountStatus::Active).await
CaSeqAccount(p) == CaEmit(p, "seq_account", "account", "active", None, "seq_commit")

\* lock.sequence_commit(did, commit).await
CaSeqCommit(p) ==
    CaEmit(p, "seq_commit", "commit", "", Some(Cid(Unwrap(req[p].commit))), "seq_sync")

\* sync_evt_data_from_commit(commit).await?, whose error is returned as it is,
\* then lock.sequence_sync_evt(did, data).await
CaSeqSync(p) ==
    \/ /\ At(p, "create_account", "seq_sync")
       /\ Reply(p, Outcome(req[p], "SyncDataError"))
       /\ lock' = None
       /\ UNCHANGED <<accounts, store, seqLog, nextSeq, started, descriptors, sessions>>
    \/ CaEmit(p, "seq_sync", "sync", "", Some(Cid(Unwrap(req[p].commit))), "update_root")

\* account_manager.update_repo_root(...).await, then the response.
CaUpdateRepoRoot(p) ==
    /\ At(p, "create_account", "update_root")
    /\ UNCHANGED <<store, seqLog, nextSeq, started, descriptors, sessions>>
    /\ lock' = None
    /\ \E fail \in BOOLEAN :
         IF fail
         THEN /\ Reply(p, Outcome(req[p], "RuntimeError"))
              /\ UNCHANGED accounts
         ELSE /\ accounts' = UpdateRepoRoot(accounts, req[p].did,
                                            Cid(Unwrap(req[p].commit)),
                                            Unwrap(req[p].commit).rev)
              /\ Reply(p, Outcome(req[p], "ok"))

(***************************************************************************)
(* The challenge protocol (plc::web5_types). A message is a sequence of    *)
(* lines and a line a sequence of tokens: its label, then its words.       *)
(***************************************************************************)
TIMESTAMP_WINDOW == 120

Digits == <<"0", "1", "2", "3", "4", "5", "6", "7", "8", "9">>
IsDigit(c) == \E i \in DOMAIN Digits : Digits[i] = c
DigitVal(c) == (CHOOSE i \in DOMAIN Digits : Digits[i] = c) - 1

\* The decimal text of a u64, as format! writes it.
RECURSIVE FormatU64(_)
FormatU64(n) == IF n < 10 THEN <<Digits[n + 1]>>
                ELSE Append(FormatU64(n \div 10), Digits[(n % 10) + 1])

\* str::trim_start_matches: every leading occurrence of the pattern goes.
RECURSIVE TrimStartMatches(_, _)
TrimStartMatches(line, pat) ==
    IF line # <<>> /\ line[1] = pat THEN TrimStartMatches(Tail(line), pat) ELSE line

\* str::trim: the white space at both ends goes.
RECURSIVE Trim(_)
Trim(t) == IF t = <<>> THEN t
           ELSE IF t[1] = " " THEN Trim(Tail(t))
           ELSE IF t[Len(t)] = " " THEN Trim(SubSeq(t, 1, Len(t) - 1))
           ELSE t

\* str::parse::<u64>: digits only, and at least one.
RECURSIVE DigitsValue(_)
DigitsValue(t) == IF t = <<>> THEN 0
                  ELSE 10 * DigitsValue(SubSeq(t, 1, Len(t) - 1)) + DigitVal(t[Len(t)])
ParseU64(t) == IF t = <<>> \/ \E i \in DOMAIN t : ~IsDigit(t[i]) THEN [ok |-> FALSE, n |-> 0]
               ELSE [ok |-> TRUE, n |-> DigitsValue(t)]

\* A variant of ExtractTimestamp that goes on to the next line when one does
\* not parse.
ExtractTimestampAnyLine(message) ==
    LET at == {i \in DOMAIN message :
                 /\ message[i] # <<>> /\ message[i][1] = "Timestamp: "
                 /\ ParseU64(Trim(TrimStartMatches(message[i], "Timestamp: "))).ok}
    IN IF at = {} THEN [ok |-> FALSE, n |-> 0]
       ELSE LET i == CHOOSE i \in at : \A j \in at : i <= j
            IN ParseU64(Trim(TrimStartMatches(message[i], "Timestamp: ")))

\* extract_timestamp: the first line that starts with "Timestamp: " decides.
ExtractTimestamp(message) ==
    LET at == {i \in DOMAIN message : message[i] # <<>> /\ message[i][1] = "Timestamp: "}
    IN IF at = {} THEN [ok |-> FALSE, n |-> 0]
       ELSE LET i == CHOOSE i \in at : \A j \in at : i <= j
            IN ParseU64(Trim(TrimStartMatches(message[i], "Timestamp: ")))

\* u64::saturating_sub
SaturatingSub(a, b) == IF a >= b THEN a - b ELSE 0

\* A variant of TimestampCheck that takes the distance between the two times.
TimestampCheckBothWays(now, timestamp) ==
    (IF now >= timestamp THEN now - timestamp ELSE timestamp - now) < TIMESTAMP_WINDOW

\* timestamp_check: current_timestamp.saturating_sub(timestamp) < 120
TimestampCheck(now, timestamp) == SaturatingSub(now, timestamp) < TIMESTAMP_WINDOW

\* The two actions and the statement each one's challenge carries.
IndexActions == {"CreateSessionIndex", "DeleteAccountIndex"}
Statement(index) == IF index = "CreateSessionIndex" THEN "create session" ELSE "delete account"

\* A variant of StatementCheck that reads the line labelled "Statement: ".
StatementCheckStatementLine(message, index) ==
    \E i \in DOMAIN message :
       /\ message[i] # <<>> /\ message[i][1] = "Statement: "
       /\ \E j \in DOMAIN message[i] : message[i][j] = Statement(index)

\* statement_check: some line of the message contains the statement.
StatementCheck(message, index) ==
    \E i \in DOMAIN message : \E j \in DOMAIN message[i] : message[i][j] = Statement(index)

\* The text format! writes for a challenge: the fields are texts themselves,
\* sequences of tokens that may hold line breaks.
LineBreak == "\n"
FormatChallenge(domain, ckb_addr, handle, ts, index) ==
    <<"Web5 Login", LineBreak, "Domain: ">> \o domain
    \o <<LineBreak, "Address: ">> \o ckb_addr
    \o <<LineBreak, "Handle: ">> \o handle
    \o <<LineBreak, "Timestamp: ">> \o FormatU64(ts)
    \o <<LineBreak, "Statement: ", Statement(index)>>

\* str::lines: the text is cut at its line breaks.
RECURSIVE Lines(_)
Lines(text) ==
    LET brk == {i \in DOMAIN text : text[i] = LineBreak}
    IN IF text = <<>> THEN <<>>
       ELSE IF brk = {} THEN <<text>>
       ELSE LET i == CHOOSE i \in brk : \A j \in brk : i <= j
            IN <<SubSeq(text, 1, i - 1)>> \o Lines(SubSeq(text, i + 1, Len(text)))

\* generate_challenge, with the time it reads from the clock, as the lines
\* its readers see.
GenerateChallenge(domain, ckb_addr, handle, ts, index) ==
    Lines(FormatChallenge(<<domain>>, <<ckb_addr>>, <<handle>>, ts, index))

\* Sha256::digest of a message.
Sha256(message) == [sha256 |-> message]

\* signed_bytes is hex text with or without the prefix 0x or 0X; body is what
\* the hex digits decode to, if they decode.
HexText(prefix, body) == [prefix |-> prefix, body |-> body]
HexDecode(signed_bytes) ==
    IF signed_bytes.body = None THEN [ok |-> FALSE, bytes |-> None]
    ELSE [ok |-> TRUE, bytes |-> Unwrap(signed_bytes.body)]

(***************************************************************************)
(* index_action.                                                           *)
(***************************************************************************)
\* PDS_HOSTNAME, and String::to_lowercase on the DIDs clients send.
ServerDomain == "pds.example"
ToLowercase(did) == IF did = "DID:A" THEN "did:a" ELSE did

\* get_didoc_from_chain against the account: a resolved document is checked
\* as direct_writes checks it; an address without a DID cell passes with the
\* handle "deleteHandle".
IaDidDocChecks(account, resolved, signing_key) ==
    IF resolved.tag = "CkbDidocCellNotFound" THEN "ok"
    ELSE DidDocChecks(account, resolved, signing_key)
IaHandle(resolved) ==
    IF resolved.tag = "Ok" THEN resolved.doc.also_known_as[1][2] ELSE "deleteHandle"

\* The freshness and the statement of the message.
ChallengeChecks(message, index, now) ==
    LET ts == ExtractTimestamp(message)
    IN IF ~ts.ok THEN "TimestampError"
       ELSE IF ~TimestampCheck(now, ts.n) THEN "SignTimeout"
       ELSE IF ~StatementCheck(message, index) THEN "StatementCheckError"
       ELSE "ok"

\* A variant of SignatureChecks that lets every signature pass.
SignatureChecksSkipped(signing_key, message, signed_bytes) == "ok"

\* The signature over the digest of the message.
SignatureChecks(signing_key, message, signed_bytes) ==
    LET sig == HexDecode(signed_bytes)
    IN IF ~sig.ok THEN "SignatureDecodeError"
       ELSE IF ~VerifySignature(signing_key, Sha256(message), sig.bytes) THEN "RuntimeError"
       ELSE "ok"

\* The messages a client may send for an action at time now: the server's
\* challenge, fresh, almost expired, expired and from a clock ahead; one for
\* another domain, address, handle or action; one whose statement line has
\* more in it; one whose handle line carries the statement; one whose
\* timestamp does not parse, is missing, or has blanks around it.
ChallengeInputs(ckb_addr, handle, now, index) ==
    LET good(ts) == GenerateChallenge(ServerDomain, ckb_addr, handle, ts, index)
        other == CHOOSE i \in IndexActions : i # index
        g == good(now)
    IN { g, good(now - (TIMESTAMP_WINDOW - 1)), good(now - TIMESTAMP_WINDOW), good(now + 1000),
         GenerateChallenge("evil.example", ckb_addr, handle, now, index),
         GenerateChallenge(ServerDomain, "ckb9", handle, now, index),
         GenerateChallenge(ServerDomain, ckb_addr, "mallory", now, index),
         GenerateChallenge(ServerDomain, ckb_addr, handle, now, other),
         [g EXCEPT ![6] = <<"Statement: ", "not", Statement(index)>>],
         [g EXCEPT ![4] = <<"Handle: ", Statement(index)>>,
                   ![6] = <<"Statement: ", Statement(other)>>],
         [g EXCEPT ![5] = <<"Timestamp: ", "soon">>],
         SubSeq(g, 1, 4) \o <<g[6]>>,
         [g EXCEPT ![5] = <<"Timestamp: ", " ">> \o FormatU64(now) \o <<" ">>] }

\* The signed bytes a client may send for a message: a signature by one of
\* the signers, with or without the prefix, or text that is no hex.
SignedInputs(message, signers) ==
    {HexText(pre, Some(Sign(k, Sha256(message)))) : pre \in {"", "0x"}, k \in signers}
    \cup {HexText("0X", None)}

\* The index_action requests: owners and strangers, resolved documents of
\* every shape, each action.
IndexEnv == [dids |-> {"did:a", "DID:A", "did:b"},
             addrs |-> {None, Some("ckb1"), Some("ckb2")},
             resolver |-> ResolverOutcomes, keys |-> Keys, signers |-> Keys,
             nows |-> {1000}, challenges |-> "any",
             indexes |-> IndexActions, dbFails |-> BOOLEAN]

\* The owner of did:a, who signs the server's challenge with the key of the
\* resolved document.
OwnerEnv == [dids |-> {"did:a"}, addrs |-> {Some("ckb1")}, resolver |-> {GoodDoc},
             keys |-> {"key1"}, signers |-> {"key1"}, nows |-> {1000},
             challenges |-> "server", indexes |-> IndexActions, dbFails |-> {FALSE}]

\* The request arrives; the account is fetched, the identity is resolved and
\* checked against it, the message and its signature are checked.
IaStart(p, in) ==
    /\ CanStart(p)
    /\ started' = started + 1
    /\ UNCHANGED <<accounts, store, seqLog, nextSeq, lock, descriptors, sessions>>
    /\ LET kind == "index_action"
           rej(res) == Reply(p, Rejected(kind, res))
       IN \E addr \in in.addrs :
          IF addr = None THEN rej("CkbAddrNotFound")
          ELSE \E d \in in.dids, dbFail \in in.dbFails :
            LET did == ToLowercase(d)
                user == GetAccount(accounts, did)
            IN IF dbFail \/ user = None THEN rej("InvalidLogin")
               ELSE IF AddressCheck(user, Unwrap(addr)) # "ok"
               THEN rej(AddressCheck(user, Unwrap(addr)))
               ELSE \E resolved \in in.resolver, key \in in.keys :
                 IF IaDidDocChecks(user, resolved, key) # "ok"
                 THEN rej(IaDidDocChecks(user, resolved, key))
                 ELSE \E now \in in.nows, index \in in.indexes :
                      \E message \in IF in.challenges = "server"
                                     THEN {GenerateChallenge(ServerDomain, Unwrap(addr),
                                                             IaHandle(resolved), now, index)}
                                     ELSE ChallengeInputs(Unwrap(addr), IaHandle(resolved),
                                                          now, index) :
                   IF ChallengeChecks(message, index, now) # "ok"
                   THEN rej(ChallengeChecks(message, index, now))
                   ELSE \E signed_bytes \in SignedInputs(message, in.signers) :
                     IF SignatureChecks(key, message, signed_bytes) # "ok"
                     THEN rej(SignatureChecks(key, message, signed_bytes))
                     ELSE Goes(p, [Idle EXCEPT
                            !.kind = kind, !.did = did, !.addr = Unwrap(addr), !.key = key,
                            !.handle = IaHandle(resolved), !.index = index,
                            !.message = message, !.signed_bytes = Some(signed_bytes),
                            !.now = now, !.resolved = Some(resolved),
                            !.pc = IF index = "CreateSessionIndex" THEN "create_session"
                                   ELSE "destroy"])

\* A variant of IaCreateSession that also announces the session in the log.
IaCreateSessionAnnounced(p) ==
    /\ At(p, "index_action", "create_session")
    /\ UNCHANGED <<accounts, store, lock, started, descriptors>>
    /\ \E fail \in BOOLEAN :
         IF fail
         THEN /\ Reply(p, Outcome(req[p], "RuntimeError"))
              /\ UNCHANGED <<sessions, seqLog, nextSeq>>
         ELSE /\ sessions' = [sessions EXCEPT ![req[p].did] = @ + 1]
              /\ seqLog' = Append(seqLog, Event(nextSeq, "identity", req[p].did, "", None))
              /\ nextSeq' = nextSeq + 1
              /\ Reply(p, Outcome([req[p] EXCEPT !.done = <<"create_session">>], "ok"))

\* account_manager.create_session(user.did, None).await, then the response
\* with the credentials.
IaCreateSession(p) ==
    /\ At(p, "index_action", "create_session")
    /\ UNCHANGED <<accounts, store, seqLog, nextSeq, lock, started, descriptors>>
    /\ \E fail \in BOOLEAN :
         IF fail
         THEN /\ Reply(p, Outcome(req[p], "RuntimeError"))
              /\ UNCHANGED sessions
         ELSE /\ sessions' = [sessions EXCEPT ![req[p].did] = @ + 1]
              /\ Reply(p, Outcome([req[p] EXCEPT !.done = <<"create_session">>], "ok"))

\* The request r after it did the step named step.
Did(r, step) == [r EXCEPT !.done = Append(@, step), !.message = <<>>, !.signed_bytes = None,
                          !.resolved = None, !.key = "", !.addr = "", !.handle = "", !.now = 0]

\* actor_store.destroy().await?
IaDestroy(p) ==
    /\ At(p, "index_action", "destroy")
    /\ UNCHANGED <<accounts, seqLog, nextSeq, lock, started, descriptors, sessions>>
    /\ \E fail \in BOOLEAN :
         IF fail
         THEN /\ Reply(p, Outcome(req[p], "StorageError"))
              /\ UNCHANGED store
         ELSE /\ store' = [store EXCEPT ![req[p].did] = None]
              /\ Goes(p, [Did(req[p], "destroy") EXCEPT !.pc = "delete_account"])

\* AccountManager::delete_account: the account's record goes.
DeleteAccountRecord(accts, did) == [accts EXCEPT ![did] = None]

\* account_manager.delete_account(&did).await?
IaDeleteAccount(p) ==
    /\ At(p, "index_action", "delete_account")
    /\ UNCHANGED <<store, seqLog, nextSeq, lock, started, descriptors, sessions>>
    /\ \E fail \in BOOLEAN :
         IF fail
         THEN /\ Reply(p, Outcome(req[p], "DbError"))
              /\ UNCHANGED accounts
         ELSE /\ accounts' = DeleteAccountRecord(accounts, req[p].did)
              /\ Goes(p, [Did(req[p], "delete_account") EXCEPT !.pc = "lock"])

\* sequencer.sequencer.write().await
IaAcquire(p) ==
    /\ At(p, "index_action", "lock")
    /\ lock = None
    /\ lock' = Some(p)
    /\ Goes(p, [req[p] EXCEPT !.pc = "seq_account"])
    /\ UNCHANGED <<accounts, store, seqLog, nextSeq, started, descriptors, sessions>>

\* lock.sequence_account_evt(did, AccountStatus::Deleted).await?
IaSeqAccount(p) ==
    /\ At(p, "index_action", "seq_account")
    /\ UNCHANGED <<accounts, store, started, descriptors, sessions>>
    /\ \E fail \in BOOLEAN :
         IF fail
         THEN /\ Reply(p, Outcome(req[p], "SequencerError"))
              /\ lock' = None
              /\ UNCHANGED <<seqLog, nextSeq>>
         ELSE /\ Append1(p, "account", "deleted", None)
              /\ Goes(p, [Did(req[p], "sequence_account_evt") EXCEPT
                             !.pc = "compact", !.emitted = Emitted(p, "account")])
              /\ UNCHANGED lock

\* sequencer::delete_all_for_user: the events of did go, but for the
\* sequence numbers in except.
DeleteAllForUser(log, did, except) == SelectSeq(log, LAMBDA e : e.did # did \/ e.seq \in except)

\* A variant of IaCompact that exempts no event.
IaCompactAll(p) ==
    /\ At(p, "index_action", "compact")
    /\ UNCHANGED <<accounts, store, nextSeq, started, descriptors, sessions>>
    /\ lock' = None
    /\ \E fail \in BOOLEAN :
         IF fail
         THEN /\ Reply(p, Outcome(req[p], "SequencerError"))
              /\ UNCHANGED seqLog
         ELSE /\ seqLog' = DeleteAllForUser(seqLog, req[p].did, {})
              /\ Reply(p, Outcome(Did(req[p], "delete_all_for_user"), "ok"))

\* sequencer::delete_all_for_user(&did, Some(vec![account_seq])).await?, then
\* the response; the lock guard is dropped when the handler returns.
IaCompact(p) ==
    /\ At(p, "index_action", "compact")
    /\ UNCHANGED <<accounts, store, nextSeq, started, descriptors, sessions>>
    /\ lock' = None
    /\ \E fail \in BOOLEAN :
         IF fail
         THEN /\ Reply(p, Outcome(req[p], "SequencerError"))
              /\ UNCHANGED seqLog
         ELSE /\ seqLog' = DeleteAllForUser(seqLog, req[p].did, {req[p].emitted[1].seq})
              /\ Reply(p, Outcome(Did(req[p], "delete_all_for_user"), "ok"))

(***************************************************************************)
(* The resolver (plc::web5_types::get_didoc_from_chain): the explorer is   *)
(* asked for the cells that refer to the address, the node for the first   *)
(* of them.                                                                *)
(***************************************************************************)
\* What the explorer's HTTP call gives: no response, a body that cannot be
\* read, an empty body, text that is no JSON, JSON without the data object or
\* the referring_cells array, an empty array, a first cell without a tx_hash
\* string or a cell_index number, with a tx_hash shorter than two characters
\* or one that is no hash, and a well-formed reference to a cell.
ExplorerReplies ==
    {"send_error", "text_error", "empty", "not_json", "data_not_object", "cells_not_array",
     "cells_empty", "tx_hash_not_str", "cell_index_not_u64", "tx_hash_short",
     "tx_hash_not_hex", "cell"}

\* What the node's get_live_cell gives: an RPC error, no cell (it is not live
\* any more), a cell without data, data that is no DidWeb5Data, a document
\* that is no DAG-CBOR, and a document.
NodeReplies == {"rpc_error", "not_live", "no_data", "bad_molecule", "bad_cbor", "doc"}

ResolverErr(tag, msg) == [tag |-> tag, msg |-> msg, doc |-> None]

GetDidocFromChain(addr_ok, explorer, node, doc) ==
    LET invalid(msg) == ResolverErr("InvalidCkbError", msg)
    IN IF ~addr_ok THEN invalid("Address format invalid")
       ELSE IF explorer = "send_error" THEN invalid("CKB Testnet")
       ELSE IF explorer = "text_error" THEN invalid("CKB Testnet Response")
       ELSE IF explorer = "empty" THEN ResolverErr("CkbAddrNoCell", "")
       ELSE IF explorer = "not_json" THEN invalid("CKB Testnet Response Convert")
       ELSE IF explorer = "data_not_object" THEN invalid("CKB Testnet Response Convert data")
       ELSE IF explorer = "cells_not_array"
       THEN invalid("CKB Testnet Response Convert referring_cells")
       ELSE IF explorer = "cells_empty" THEN ResolverErr("CkbDidocCellNotFound", "")
       ELSE IF explorer = "tx_hash_not_str" THEN invalid("CKB Testnet Response Convert tx_hash")
       ELSE IF explorer = "cell_index_not_u64"
       THEN invalid("CKB Testnet Response Convert cell_index")
       ELSE IF explorer = "tx_hash_short" THEN ResolverErr("Panic", "")
       ELSE IF explorer = "tx_hash_not_hex" THEN invalid("CKB Testnet Response Convert Hash")
       ELSE IF node = "rpc_error" THEN invalid("CKB get_live_cell")
       ELSE IF node = "not_live" THEN invalid("Cell info not found")
       ELSE IF node = "no_data" THEN invalid("Cell data not found")
       ELSE IF node = "bad_molecule" THEN invalid("DidWeb5Data convert failed")
       ELSE IF node = "bad_cbor" THEN invalid("Web5DocumentData dog cbor decode failed")
       ELSE [tag |-> "Ok", msg |-> "", doc |-> doc]

(***************************************************************************)
(* The library calls on their own: a call is drawn with its arguments,     *)
(* evaluated, and a challenge that was generated is handed back for        *)
(* verification.                                                           *)
(***************************************************************************)
\* statement_check's result: Ok(true) or the error; it has no Ok(false).
StatementCheckResult(message, index) ==
    IF StatementCheck(message, index) THEN [ok |-> TRUE, val |-> TRUE]
    ELSE [ok |-> FALSE, val |-> FALSE]

\* The checks of inner_index_action between the address comparison and the
\* action, in the order of the code.
IndexActionChecks(user, resolved, signing_key, message, index, now, signed_bytes) ==
    IF IaDidDocChecks(user, resolved, signing_key) # "ok"
    THEN IaDidDocChecks(user, resolved, signing_key)
    ELSE IF ChallengeChecks(message, index, now) # "ok"
    THEN ChallengeChecks(message, index, now)
    ELSE SignatureChecks(signing_key, message, signed_bytes)

\* The times of the clock and of the messages around the window's ends.
ClockInputs == {0, 60, 119, 120, 1000}
TimestampInputs(now) ==
    {t \in {0, now - 1000, now - 121, now - TIMESTAMP_WINDOW, now - (TIMESTAMP_WINDOW - 1),
            now - 1, now, now + 1, now + TIMESTAMP_WINDOW, now + 1000} : t >= 0}

\* The messages handed to the readers: those of ChallengeInputs, and messages
\* with two timestamp lines, a repeated label, or no line at all.
MessageInputs ==
    LET g(index) == GenerateChallenge(ServerDomain, "ckb1", "alice", 1000, index)
    IN UNION {ChallengeInputs("ckb1", "alice", 1000, index) : index \in IndexActions}
       \cup { <<>>,
              <<g("CreateSessionIndex")[5], <<"Timestamp: ", "7">> >>,
              << <<"Timestamp: ", "soon">>, g("CreateSessionIndex")[5] >>,
              << <<"Timestamp: ", "Timestamp: ", "4", "2">> >>,
              << <<"Note: ", "Timestamp: ", "5">>, <<"Timestamp: ", "6">> >> }

\* The fields a challenge is generated from: the handle is the text of the
\* resolved document's first alias after "at://", which nobody checks.
HandleTexts ==
    { <<"alice">>, <<"deleteHandle">>, <<"create session">>,
      <<"alice", LineBreak, "Timestamp: ", "7">>,
      <<"alice", LineBreak, "Timestamp: ", "soon">> }
IssueTimes == {0, 7, 99, 1000, 1881}

ChallengeArgs(message, index, now, ts, issued) ==
    [message |-> message, index |-> index, now |-> now, ts |-> ts, issued |-> issued]

Calls ==
    {[fn |-> "get_didoc_from_chain",
      args |-> [addr_ok |-> a, explorer |-> e, node |-> n, doc |-> GoodDoc.doc],
      out |-> None] : a \in BOOLEAN, e \in ExplorerReplies, n \in NodeReplies}
    \cup {[fn |-> "timestamp_check", args |-> ChallengeArgs(<<>>, "", now, t, None),
           out |-> None] : now \in ClockInputs, t \in UNION {TimestampInputs(n) : n \in ClockInputs}}
    \cup {[fn |-> f, args |-> ChallengeArgs(m, i, 0, 0, None), out |-> None] :
             f \in {"extract_timestamp", "statement_check"}, m \in MessageInputs,
             i \in IndexActions}
    \cup {[fn |-> "generate_challenge",
           args |-> [domain |-> <<ServerDomain>>, ckb_addr |-> <<"ckb1">>, handle |-> h,
                     ts |-> ts, index |-> i],
           out |-> None] : h \in HandleTexts, ts \in IssueTimes, i \in IndexActions}
    \cup UNION {{[fn |-> "index_action_checks",
                  args |-> [resolved |-> r, signing_key |-> k, message |-> m, index |-> i,
                            now |-> 1000, signed_bytes |-> sb, first |-> None],
                  out |-> None] : sb \in SignedInputs(m, Keys)} :
                 r \in ResolverOutcomes, k \in Keys, i \in IndexActions,
                 m \in ChallengeInputs("ckb1", "alice", 1000, "CreateSessionIndex")}

InitCalls == ServerInit /\ call \in Calls

Server == <<accounts, store, seqLog, nextSeq, lock, req, resp, started, descriptors, sessions>>

Evaluate(fn, result) ==
    /\ call.fn = fn
    /\ call.out = None
    /\ call' = [call EXCEPT !.out = Some(result)]
    /\ UNCHANGED Server

CallGetDidocFromChain ==
    Evaluate("get_didoc_from_chain",
             GetDidocFromChain(call.args.addr_ok, call.args.explorer, call.args.node,
                               call.args.doc))

CallTimestampCheck ==
    Evaluate("timestamp_check", TimestampCheck(call.args.now, call.args.ts))

CallExtractTimestamp ==
    Evaluate("extract_timestamp", ExtractTimestamp(call.args.message))

CallStatementCheck ==
    Evaluate("statement_check", StatementCheckResult(call.args.message, call.args.index))

CallGenerateChallenge ==
    Evaluate("generate_challenge",
             Lines(FormatChallenge(call.args.domain, call.args.ckb_addr, call.args.handle,
                                   call.args.ts, call.args.index)))

\* A variant of CallIndexActionChecks that remembers the requests it has
\* answered and turns a repeated one down.
CallIndexActionChecksOnce ==
    Evaluate("index_action_checks",
             IF call.args.first # None THEN "ChallengeUsed"
             ELSE IndexActionChecks(GetAccount(accounts, "did:a"), call.args.resolved,
                                    call.args.signing_key, call.args.message,
                                    call.args.index, call.args.now, call.args.signed_bytes))

CallIndexActionChecks ==
    Evaluate("index_action_checks",
             IndexActionChecks(GetAccount(accounts, "did:a"), call.args.resolved,
                               call.args.signing_key, call.args.message, call.args.index,
                               call.args.now, call.args.signed_bytes))

\* The client hands the challenge back after delay seconds and one of the
\* readers is applied to it; timestamp_check gets what extract_timestamp
\* reads, as in inner_index_action.
VerifyDelays == {0, 1, TIMESTAMP_WINDOW - 1, TIMESTAMP_WINDOW}
Submit ==
    /\ call.fn = "generate_challenge"
    /\ call.out # None
    /\ \E f \in {"extract_timestamp", "statement_check", "timestamp_check"},
          delay \in VerifyDelays :
         LET message == Unwrap(call.out)
         IN /\ f = "timestamp_check" => ExtractTimestamp(message).ok
            /\ call' = [fn |-> f,
                        args |-> ChallengeArgs(message, call.args.index,
                                               call.args.ts + delay,
                                               ExtractTimestamp(message).n,
                                               Some(call.args.ts)),
                        out |-> None]
    /\ UNCHANGED Server

\* The client sends a CreateSession request that has been answered once more,
\* delay seconds later: the same message, signed bytes and signing key,
\* against the same account and resolved document.
ResubmitDelays == {1, TIMESTAMP_WINDOW - 1, TIMESTAMP_WINDOW, 1000}
Resubmit ==
    /\ call.fn = "index_action_checks"
    /\ call.out # None
    /\ call.args.first = None
    /\ call.args.index = "CreateSessionIndex"
    /\ \E delay \in ResubmitDelays :
         call' = [call EXCEPT !.args.now = @ + delay, !.args.first = call.out, !.out = None]
    /\ UNCHANGED Server

NextCalls ==
    \/ CallGetDidocFromChain
    \/ CallTimestampCheck
    \/ CallExtractTimestamp
    \/ CallStatementCheck
    \/ CallGenerateChallenge
    \/ CallIndexActionChecks
    \/ Submit
    \/ Resubmit

SpecCalls == InitCalls /\ [][NextCalls]_vars

(***************************************************************************)
(* Cancellation: the handler's future is dropped at one of its awaits.     *)
(***************************************************************************)
\* The awaits of direct_writes and create_account that follow the call which
\* persists the commit (verify_writes, web5_create_repo).
AwaitsAfterApply ==
    [direct_writes |-> {"lock", "seq_commit", "update_root"},
     create_account |-> {"create_record", "destroy", "lock", "seq_identity", "seq_account",
                         "seq_commit", "seq_sync", "update_root"}]

\* The task p is dropped at the await it has reached: its locals go, the lock
\* guard among them; no other code of the handler runs and no response is
\* sent.
Cancel(p) ==
    /\ resp = None
    /\ req[p].kind \in DOMAIN AwaitsAfterApply
    /\ req[p].pc \in AwaitsAfterApply[req[p].kind]
    /\ req' = [req EXCEPT ![p] = Idle]
    /\ lock' = IF lock = Some(p) THEN None ELSE lock
    /\ UNCHANGED <<accounts, store, seqLog, nextSeq, resp, started, descriptors, sessions,
                   call>>

(***************************************************************************)
(* The system: every task handles one request at a time.                   *)
(***************************************************************************)
CreateRest(p) ==
    \/ CaCreateRepo(p)
    \/ CaCreateRecord(p)
    \/ CaDestroy(p)
    \/ CaAcquire(p)
    \/ CaSeqIdentity(p)
    \/ CaSeqAccount(p)
    \/ CaSeqCommit(p)
    \/ CaSeqSync(p)
    \/ CaUpdateRepoRoot(p)

WriteStep(p) ==
    \/ PreGenerate(p)
    \/ DwVerifyWrites(p)
    \/ DwAcquire(p)
    \/ DwSequenceCommit(p)
    \/ DwUpdateRepoRoot(p)

IndexStep(p) ==
    \/ IaCreateSession(p)
    \/ IaDestroy(p)
    \/ IaDeleteAccount(p)
    \/ IaAcquire(p)
    \/ IaSeqAccount(p)
    \/ IaCompact(p)

\* Accounts are created while their owners' requests come in.
NextCreate ==
    \/ Respond
    \/ \E p \in Procs : CaStart(p, CreateEnv) \/ CreateRest(p)

SpecCreate == Init /\ [][NextCreate]_vars

\* The write path: pre_direct_writes and direct_writes requests of did:a.
NextWrites ==
    \/ Respond
    \/ \E p \in Procs : PreStart(p, WriteEnv) \/ DwStart(p, WriteEnv) \/ WriteStep(p)

SpecWrites == Init /\ [][NextWrites]_vars

\* Accounts are created and written to: did:b's owner creates the account bob
\* while both owners write, with or without the check of the records' shape.
BothEnv == [batches |-> { <<Create(Some("rk1"), "v1")>>, <<Update("rk1", BadVal)>> },
            repos |-> {"alice", "bob"},
            addrs |-> {Some("ckb1"), Some("ckb2")},
            resolver |-> {GoodDoc, [GoodDoc EXCEPT !.doc.also_known_as = << <<"at://", "bob">> >>]},
            keys |-> {"key1"},
            auths |-> {Some([did |-> Some(d)]) : d \in DIDs}, dbFails |-> {FALSE},
            validates |-> {None, Some(FALSE)}]
NewcomerEnv == [resolver |-> {[tag |-> "CkbDidocCellNotFound", doc |-> None]},
                dids |-> {"did:b"}, handles |-> {"bob"}, addrs |-> {"ckb2"},
                keys |-> {"key1"}, signers |-> {"key1"}]

NextBoth ==
    \/ Respond
    \/ \E p \in Procs : \/ PreStart(p, BothEnv) \/ DwStart(p, BothEnv) \/ WriteStep(p)
                         \/ CaStart(p, NewcomerEnv) \/ CreateRest(p)

SpecBoth == Init /\ [][NextBoth]_vars

\* The write path with batches at the size limit.
NextLimit ==
    \/ Respond
    \/ \E p \in Procs : PreStart(p, LimitEnv) \/ DwStart(p, LimitEnv) \/ WriteStep(p)

SpecLimit == Init /\ [][NextLimit]_vars

\* The privileged actions: sessions are created and accounts deleted.
NextIndex ==
    \/ Respond
    \/ \E p \in Procs : IaStart(p, IndexEnv) \/ IndexStep(p)

SpecIndex == Init /\ [][NextIndex]_vars

\* Every endpoint at once: did:b's owner creates the account bob while the
\* owner of did:a writes to its repository, opens sessions and deletes the
\* account.
OneBatchEnv == [WriteEnv EXCEPT !.batches = { <<Create(Some("rk1"), "v1")>> }]

NextAll ==
    \/ Respond
    \/ \E p \in Procs : \/ PreStart(p, OneBatchEnv) \/ DwStart(p, OneBatchEnv) \/ WriteStep(p)
                         \/ CaStart(p, NewcomerEnv) \/ CreateRest(p)
                         \/ IaStart(p, OwnerEnv) \/ IndexStep(p)

SpecAll == Init /\ [][NextAll]_vars

\* Every endpoint at once, with clients that may go away while their request
\* is being handled.
NextCancel ==
    \/ NextAll
    \/ \E p \in Procs : Cancel(p)

SpecCancel == Init /\ [][NextCancel]_vars

\* Write requests of any client against a server that holds the account of
\* did:a and the deactivated account of did:b: with or without an address,
\* for a repository with or without an account, with either key, with any
\* credentials.
GuardEnv == [batches |-> { <<Create(Some("rk1"), "v1")>> },
             repos |-> {"alice", "bob", "carol"},
             addrs |-> {None, Some("ckb1"), Some("ckb2")},
             resolver |-> {GoodDoc,
                           [GoodDoc EXCEPT !.doc.also_known_as = << <<"at://", "bob">> >>],
                           [GoodDoc EXCEPT !.doc.verification_methods = {"key2"}],
                           [tag |-> "CkbDidocCellNotFound", doc |-> None]},
             keys |-> Keys,
             auths |-> {None, Some([did |-> None])} \cup {Some([did |-> Some(d)]) : d \in DIDs},
             dbFails |-> {FALSE, TRUE},
             validates |-> {None}]

GuardInit ==
    /\ accounts = [d \in DIDs |->
                     IF d = "did:a"
                     THEN Some(Account(d, "alice", "ckb1", FALSE, Cid(GenesisCommit), 1))
                     ELSE Some(Account(d, "bob", "ckb2", TRUE, Cid(GenesisCommit), 1))]
    /\ store = [d \in DIDs |->
                  Some([commits |-> <<GenesisCommit>>, records |-> EmptyRecords])]
    /\ seqLog = << Event(1, "identity", "did:a", "", None),
                   Event(2, "account", "did:a", "active", None),
                   Event(3, "commit", "did:a", "", Some(Cid(GenesisCommit))),
                   Event(4, "sync", "did:a", "", Some(Cid(GenesisCommit))) >>
    /\ nextSeq = 5
    /\ lock = None
    /\ req = [p \in Procs |-> Idle]
    /\ resp = None
    /\ started = 0
    /\ descriptors = {}
    /\ sessions = [d \in DIDs |-> 0]
    /\ call = NoCall

NextGuard ==
    \/ Respond
    \/ \E p \in Procs : PreStart(p, GuardEnv) \/ DwStart(p, GuardEnv) \/ WriteStep(p)

SpecGuard == GuardInit /\ [][NextGuard]_vars

\* The write path when the sequencer and the account store do not fail: a
\* direct_writes request whose commit was applied goes on to its answer Ok.
DwSequenceCommitOk(p) == DwSequenceCommit(p) /\ resp' = None
DwUpdateRepoRootOk(p) == DwUpdateRepoRoot(p) /\ Unwrap(resp').result = "ok"

NextWritesOk ==
    \/ Respond
    \/ \E p \in Procs :
         \/ PreStart(p, WriteEnv) \/ PreGenerate(p)
         \/ DwStart(p, WriteEnv) \/ DwVerifyWrites(p) \/ DwAcquire(p)
         \/ DwSequenceCommitOk(p) \/ DwUpdateRepoRootOk(p)

SpecWritesOk == Init /\ [][NextWritesOk]_vars

\* The sequencer's lock is a fair lock (sequencer.sequencer.write().await): a
\* task that waits for it gets it once it has been free often enough. The
\* calls made under the lock return, and so does the response.
AcquireStep(p) == DwAcquire(p) \/ CaAcquire(p) \/ IaAcquire(p)

HolderStep(p) ==
    \/ DwSequenceCommit(p) \/ DwUpdateRepoRoot(p)
    \/ CaSeqIdentity(p) \/ CaSeqAccount(p) \/ CaSeqCommit(p) \/ CaSeqSync(p)
    \/ CaUpdateRepoRoot(p)
    \/ IaSeqAccount(p) \/ IaCompact(p)

SpecAllFair ==
    /\ SpecAll
    /\ WF_vars(Respond)
    /\ \A p \in Procs : WF_vars(HolderStep(p)) /\ SF_vars(AcquireStep(p))

(***************************************************************************)
(* Properties of create_account.                                           *)
(***************************************************************************)
\* The events an account's creation emits, in order.
CreateEventKinds == <<"identity", "account", "commit", "sync">>

\* The events of the log about did from sequence number n on.
EventsFrom(did, n) == SelectSeq(seqLog, LAMBDA e : e.did = did /\ e.seq >= n)

\* What the request with outcome or locals o emitted so far is the start of
\* the four events, with growing sequence numbers, and the log holds these
\* events of the account and no other.
EmittedInOrder(o) ==
    LET em == o.emitted
        ev == IF em = <<>> THEN <<>> ELSE EventsFrom(o.did, em[1].seq)
    IN /\ Len(em) <= Len(CreateEventKinds)
       /\ \A i \in DOMAIN em : em[i].kind = CreateEventKinds[i]
       /\ \A i, j \in DOMAIN em : i < j => em[i].seq < em[j].seq
       /\ Len(ev) = Len(em)
       /\ \A i \in DOMAIN em :
            /\ ev[i].seq = em[i].seq /\ ev[i].kind = em[i].kind
            /\ ev[i].kind = "account" => ev[i].status = "active"

\* C1: a create_account that succeeds has appended exactly the identity, the
\* account (active), the commit and the sync event, in this order and with
\* strictly increasing sequence numbers; one that fails after an append
\* failed has appended only the events before it, in the same order.
C1_CreateAccountEvents ==
    /\ \A p \in Procs : req[p].kind = "create_account" => EmittedInOrder(req[p])
    /\ resp # None /\ Unwrap(resp).kind = "create_account" =>
         /\ EmittedInOrder(Unwrap(resp))
         /\ Unwrap(resp).result = "ok" => Len(Unwrap(resp).emitted) = 4

C1_Witness ==
    /\ resp # None /\ Unwrap(resp).kind = "create_account"
    /\ Unwrap(resp).result = "ok"
    /\ Len(Unwrap(resp).emitted) = 4

(***************************************************************************)
(* Properties of the write path.                                           *)
(***************************************************************************)
\* The commit a swapCommit string names, if it names one.
Declared(swapIn) ==
    IF swapIn = None THEN None
    ELSE LET c == CidFromStr(Unwrap(swapIn)) IN IF c.ok THEN Some(c.cid) ELSE None

\* The stored commits of did, oldest first.
Chain(did) == IF store[did] = None THEN <<>> ELSE Unwrap(store[did]).commits

\* The positions of the stored commits of did applied on top of the commit c.
AppliedOn(did, c) == {i \in DOMAIN Chain(did) : Chain(did)[i].prev = Some(c)}

\* A direct_writes request in flight whose apply succeeded.
Applied(r) == r.kind = "direct_writes" /\ r.applyErr = "ok" /\ r.commit # None

\* Task p takes its apply step in this transition.
ApplyStep(p) == req[p].kind = "direct_writes" /\ req[p].pc = "verify" /\ req'[p] # req[p]

\* C2: of the direct_writes requests that declare the same swap commit, at
\* most one is applied on top of it, and it is applied as that commit's
\* successor; every other one that reaches the apply after it is turned away
\* with SwapMismatch, and none is turned away while the commit is the head.
C2_OneWinnerPerSwap ==
    /\ \A d \in DIDs : \A i \in DOMAIN Chain(d) :
          Cardinality(AppliedOn(d, Cid(Chain(d)[i]))) <= 1
    /\ \A p \in Procs :
          Applied(req[p]) /\ Declared(req[p].swapIn) # None =>
             /\ Unwrap(req[p].commit).prev = Declared(req[p].swapIn)
             /\ \E i \in DOMAIN Chain(req[p].did) :
                   Chain(req[p].did)[i] = Unwrap(req[p].commit)
    /\ resp # None /\ Unwrap(resp).kind = "direct_writes"
         /\ Unwrap(resp).applyErr \notin {"none", "ok"}
         /\ Declared(Unwrap(resp).swapIn) # None =>
           LET o == Unwrap(resp)
               c == Unwrap(Declared(o.swapIn))
           IN /\ AppliedOn(o.did, c) # {} => o.applyErr = "SwapMismatch"
              /\ o.headAtApply = Some(c) => o.applyErr # "SwapMismatch"

\* Two requests arrived while c was the head and both declared it: one was
\* applied and is still in flight, the other has been turned away.
C2_Witness ==
    /\ resp # None /\ Unwrap(resp).kind = "direct_writes"
    /\ Unwrap(resp).result = "SwapMismatch"
    /\ Declared(Unwrap(resp).swapIn) # None
    /\ Declared(Unwrap(resp).swapIn) = Unwrap(resp).headAtStart
    /\ \E p \in Procs : /\ Applied(req[p])
                         /\ req[p].swapIn = Unwrap(resp).swapIn
                         /\ req[p].headAtStart = Unwrap(resp).headAtStart

\* C3: a direct_writes request that carries a swap commit gets SwapMismatch
\* from its apply step exactly when the head of the repository at that step
\* is another commit than the one it declared; the step then leaves the
\* store, the log and the account's root pointer as they were.
C3_SwapMismatchIffStale ==
    [][\A p \in Procs :
         ApplyStep(p) /\ LiveHead(req[p].did) # None /\ req[p].swapIn # None =>
            LET stale == LiveHead(req[p].did) # Declared(req[p].swapIn)
            IN /\ stale <=> (resp' # None /\ Unwrap(resp').result = "SwapMismatch")
               /\ stale => UNCHANGED <<accounts, store, seqLog, nextSeq>>]_vars

C3_Witness ==
    /\ resp # None /\ Unwrap(resp).kind = "direct_writes"
    /\ Unwrap(resp).result = "SwapMismatch"
    /\ Unwrap(resp).headAtApply # Declared(Unwrap(resp).swapIn)
    /\ Unwrap(accounts[Unwrap(resp).did]).repo_cid \in
          {Cid(Chain(Unwrap(resp).did)[i]) : i \in DOMAIN Chain(Unwrap(resp).did)}

\* The last write of pw[1..n] on the record k, or 0.
LastOn(pw, k, n) ==
    LET on == {j \in 1..n : pw[j].rkey = k}
    IN IF on = {} THEN 0 ELSE CHOOSE j \in on : \A h \in on : h <= j

\* Whether the write pw[i] meets the record as the writes before it left it.
ValidAt(records, pw, i) ==
    LET j == LastOn(pw, pw[i].rkey, i - 1)
        present == IF j = 0 THEN records[pw[i].rkey] # None ELSE pw[j].op # "delete"
    IN IF pw[i].op = "create" THEN ~present ELSE present

\* The record k after every write of pw.
AfterBatch(records, pw, k) ==
    LET j == LastOn(pw, k, Len(pw))
    IN IF j = 0 THEN records[k]
       ELSE IF pw[j].op = "delete" THEN None ELSE Some(pw[j].value)

\* C4: the apply step of a batch either leaves the repository as it was and
\* returns an error, or stores every write of the batch, each one valid where
\* it stands in the batch, together with one new commit whose revision is the
\* next one after the head's.
C4_ApplyAllOrNothing ==
    [][\A p \in Procs :
         ApplyStep(p) /\ store[req[p].did] # None =>
            LET r == req[p]
                old == Unwrap(store[r.did])
                new == Unwrap(store'[r.did])
            IN \/ /\ UNCHANGED <<accounts, store, seqLog, nextSeq>>
                  /\ resp' # None /\ Unwrap(resp').result # "ok"
               \/ /\ Len(r.writes) <= MAX_WRITES
                  /\ \A i \in DOMAIN r.writes : ValidAt(old.records, r.writes, i)
                  /\ \A k \in RKeys : new.records[k] = AfterBatch(old.records, r.writes, k)
                  /\ new.commits = Append(old.commits, HeadCommit(new))
                  /\ HeadCommit(new).data = new.records
                  /\ HeadCommit(new).rev = HeadCommit(old).rev + 1
                  /\ resp' = None /\ req'[p].commit = Some(HeadCommit(new))]_vars

\* A batch of two writes has been applied: both are in the repository.
C4_Witness ==
    \E p \in Procs :
       /\ Applied(req[p])
       /\ Unwrap(req[p].commit).data["rk1"] = None
       /\ Unwrap(req[p].commit).data["rk2"] # None
       /\ Len(Chain(req[p].did)) = 3

\* The commits ch are one chain: the first has no previous commit, every later
\* one names the commit stored before it, and no two name the same one.
IsChain(ch) ==
    /\ ch # <<>> => ch[1].prev = None
    /\ \A i \in DOMAIN ch : i > 1 => ch[i].prev = Some(Cid(ch[i - 1]))
    /\ \A i, j \in DOMAIN ch : i # j => ch[i].prev # ch[j].prev

Unsigned(c) == [did |-> c.did, version |-> c.version, data |-> c.data, rev |-> c.rev,
                prev |-> c.prev]

\* C7: the apply step of direct_writes stores a commit only with a signature
\* that verifies under the request's signing key over the commit's own
\* unsigned bytes; when the swap and the writes are in order and the signature
\* does not verify, the request fails with a crypto error and the store, the
\* log and the account's root pointer stay as they were.
C7_SignatureBeforePersist ==
    [][\A p \in Procs :
         ApplyStep(p) /\ store[req[p].did] # None =>
            LET r == req[p]
                g == GenerateCommit(store[r.did], r.did, r.writes, r.swap)
                sig == Unwrap(r.root).signed_bytes
                bad == ~(sig.by = r.key /\ sig.over = EncodeCommit(g.commit))
            IN /\ g.err = "ok" /\ bad =>
                    /\ resp' # None /\ Unwrap(resp').result = "CryptoError"
                    /\ UNCHANGED <<accounts, store, seqLog, nextSeq>>
               /\ store' # store =>
                    LET c == HeadCommit(Unwrap(store'[r.did]))
                    IN c.sig = sig /\ sig.by = r.key /\ sig.over = EncodeCommit(Unsigned(c))]_vars

\* A request signed with another key than its signing key has been refused.
C7_Witness ==
    /\ resp # None /\ Unwrap(resp).kind = "direct_writes"
    /\ Unwrap(resp).result = "CryptoError"
    /\ Unwrap(resp).emitted = <<>>
    /\ Len(Chain(Unwrap(resp).did)) = 1

\* C8: two pre_direct_writes calls with the same writes and swap commit on the
\* same head hand out the same unsigned commit: did, rev, data, prev, version
\* and un_sign_bytes.
C8_SameInputsSameDescriptor ==
    \A d1, d2 \in descriptors :
       d1.head = d2.head /\ d1.writes = d2.writes /\ d1.swap = d2.swap => d1.out = d2.out

\* Task p takes a step of a pre_direct_writes request in this transition.
PreStep(p) ==
    /\ req'[p] # req[p] \/ (req[p].pc = "idle" /\ resp' # None)
    /\ \/ req[p].kind = "pre_direct_writes"
       \/ req'[p].kind = "pre_direct_writes"
       \/ resp' # None /\ Unwrap(resp').kind = "pre_direct_writes"

\* C9: no step of a pre_direct_writes request changes the account store, the
\* object store, the sequencer's log and counter, or the sequencer's lock.
C9_PreWritesReadOnly ==
    [][\A p \in Procs : PreStep(p) => UNCHANGED <<accounts, store, seqLog, nextSeq, lock>>]_vars

\* A pre_direct_writes request has handed out an unsigned commit for a
\* repository that still has only its first commit.
C9_Witness ==
    /\ resp # None /\ Unwrap(resp).kind = "pre_direct_writes"
    /\ Unwrap(resp).result = "ok"
    /\ descriptors # {}
    /\ Chain(Unwrap(resp).did) = <<GenesisCommit>>
    /\ Unwrap(store[Unwrap(resp).did]).records = EmptyRecords

\* C10: a batch of more than 200 writes is refused by pre_direct_writes and by
\* direct_writes before any write is prepared, the store is asked, an event is
\* emitted or the root pointer is set; a batch of exactly 200 is not refused
\* for its size.
C10_BatchLimit ==
    /\ \A p \in Procs : req[p].nwrites <= MAX_WRITES
    /\ resp # None /\ Unwrap(resp).kind \in {"pre_direct_writes", "direct_writes"} =>
         LET o == Unwrap(resp)
         IN /\ o.nwrites > MAX_WRITES =>
                 /\ o.result = "TooManyWrites" /\ ~o.prepared
                 /\ o.applyErr = "none" /\ o.emitted = <<>>
            /\ o.result = "TooManyWrites" => o.nwrites > MAX_WRITES

\* A batch of 201 writes has been refused while one of 200 is being applied.
C10_Witness ==
    /\ resp # None /\ Unwrap(resp).result = "TooManyWrites"
    /\ Unwrap(resp).nwrites = MAX_WRITES + 1
    /\ \E p \in Procs : Applied(req[p]) /\ req[p].nwrites = MAX_WRITES

(***************************************************************************)
(* Properties of index_action.                                             *)
(***************************************************************************)
\* An index_action request whose checks have passed and whose action is about
\* to run.
Executing(r) == r.kind = "index_action" /\ r.pc \in {"create_session", "destroy"}

\* The lines of a message that carry the label.
LinesOf(message, label) ==
    {i \in DOMAIN message : message[i] # <<>> /\ message[i][1] = label}

\* C11: a message is accepted only with a timestamp that is at most the
\* verification time and less than 120 seconds before it, and with a
\* statement line that is exactly the statement of the requested action.
C11_FreshAndExactStatement ==
    \A p \in Procs :
       Executing(req[p]) =>
          LET r == req[p]
              ts == ExtractTimestamp(r.message)
          IN /\ ts.ok /\ ts.n <= r.now /\ r.now - ts.n < TIMESTAMP_WINDOW
             /\ LinesOf(r.message, "Statement: ") # {}
             /\ \A i \in LinesOf(r.message, "Statement: ") :
                   r.message[i] = <<"Statement: ", Statement(r.index)>>

\* C12: a message is accepted only if it is the challenge the server
\* generates for the request's address, the resolved handle, the server's
\* domain, the embedded timestamp and the requested action.
C12_ChallengeRecomputed ==
    \A p \in Procs :
       Executing(req[p]) =>
          LET r == req[p]
          IN r.message = GenerateChallenge(ServerDomain, r.addr, r.handle,
                                           ExtractTimestamp(r.message).n, r.index)

\* C13: an action of index_action runs only for an account whose address is
\* the request's and whose handle is the handle of the document resolved for
\* that address: the first alsoKnownAs entry without its at:// prefix.
C13_BindingsMatchResolvedDoc ==
    \A p \in Procs :
       Executing(req[p]) =>
          LET r == req[p]
              res == Unwrap(r.resolved)
          IN /\ res.tag = "Ok"
             /\ Len(res.doc.also_known_as) > 0
             /\ res.doc.also_known_as[1][1] = "at://"
             /\ accounts[r.did] # None =>
                   /\ Unwrap(accounts[r.did]).ckb_address = Some(r.addr)
                   /\ Unwrap(accounts[r.did]).handle = Some(res.doc.also_known_as[1][2])

\* The steps of the DeleteAccount action, in order.
DeleteSteps == <<"destroy", "delete_account", "sequence_account_evt", "delete_all_for_user">>
IsPrefix(a, b) == Len(a) <= Len(b) /\ a = SubSeq(b, 1, Len(a))

\* C14: every step of a DeleteAccount action either fails, ends the request
\* with an error and changes nothing, or does the next one of: the object
\* store of the identity is destroyed, the account record is deleted, one
\* account event with status deleted is appended, the events of the identity
\* are erased but for that event; the request succeeds only after all four,
\* and appends no other event.
C14_DeleteAccountOrder ==
    [][\A p \in Procs :
         req[p].kind = "index_action" /\ req[p].index = "DeleteAccountIndex"
         /\ req'[p] # req[p] =>
            LET r == req[p]
                o == IF resp' # None THEN Unwrap(resp') ELSE req'[p]
                deleted == Event(nextSeq, "account", r.did, "deleted", None)
            IN /\ IsPrefix(r.done, DeleteSteps) /\ IsPrefix(o.done, DeleteSteps)
               /\ Len(o.done) \in {Len(r.done), Len(r.done) + 1}
               /\ Len(o.emitted) <= 1
               /\ resp' # None /\ o.result = "ok" => o.done = DeleteSteps /\ Len(o.emitted) = 1
               /\ Len(o.done) = Len(r.done) =>
                     /\ UNCHANGED <<accounts, store, seqLog, nextSeq, sessions>>
                     /\ (resp' # None /\ o.result # "ok") \/ (r.pc = "lock" /\ lock' = Some(p))
               /\ Len(o.done) = Len(r.done) + 1 =>
                     LET step == o.done[Len(o.done)]
                     IN /\ step = "destroy" =>
                             /\ store' = [store EXCEPT ![r.did] = None]
                             /\ UNCHANGED <<accounts, seqLog, nextSeq>>
                        /\ step = "delete_account" =>
                             /\ accounts' = [accounts EXCEPT ![r.did] = None]
                             /\ UNCHANGED <<store, seqLog, nextSeq>>
                        /\ step = "sequence_account_evt" =>
                             /\ lock = Some(p)
                             /\ seqLog' = Append(seqLog, deleted)
                             /\ o.emitted = <<[kind |-> "account", seq |-> deleted.seq]>>
                             /\ UNCHANGED <<accounts, store>>
                        /\ step = "delete_all_for_user" =>
                             /\ lock = Some(p) /\ lock' = None
                             /\ seqLog' = SelectSeq(seqLog, LAMBDA e :
                                             e.did # r.did \/ e.seq = r.emitted[1].seq)
                             /\ \E i \in DOMAIN seqLog' :
                                   /\ seqLog'[i].seq = r.emitted[1].seq
                                   /\ seqLog'[i].status = "deleted"
                             /\ UNCHANGED <<accounts, store, nextSeq>>]_vars

\* did:a has been deleted: its store and its record are gone, and its only
\* event in the log is the one that says so.
C14_Witness ==
    /\ resp # None /\ Unwrap(resp).kind = "index_action"
    /\ Unwrap(resp).index = "DeleteAccountIndex" /\ Unwrap(resp).result = "ok"
    /\ Unwrap(resp).done = DeleteSteps
    /\ store["did:a"] = None /\ accounts["did:a"] = None
    /\ SelectSeq(seqLog, LAMBDA e : e.did = "did:a") =
          <<Event(Unwrap(resp).emitted[1].seq, "account", "did:a", "deleted", None)>>

\* An index_action request arrives in this transition.
IndexStart ==
    /\ started' = started + 1
    /\ \/ resp' # None /\ Unwrap(resp').kind = "index_action"
       \/ \E p \in Procs : req[p].pc = "idle" /\ req'[p].kind = "index_action"

\* Every stage before the action has passed for the request r.
StagesPassed(r) ==
    LET user == accounts[r.did]
        res == Unwrap(r.resolved)
        ts == ExtractTimestamp(r.message)
        sb == Unwrap(r.signed_bytes)
    IN /\ user # None
       /\ Unwrap(user).ckb_address = Some(r.addr)
       /\ res.tag \in {"Ok", "CkbDidocCellNotFound"}
       /\ res.tag = "Ok" =>
             /\ Unwrap(user).handle = Some(r.handle)
             /\ r.key \in res.doc.verification_methods
       /\ ts.ok /\ TimestampCheck(r.now, ts.n)
       /\ StatementCheck(r.message, r.index)
       /\ sb.body # None
       /\ Unwrap(sb.body).by = r.key /\ Unwrap(sb.body).over = Sha256(r.message)

\* C15: the arrival of an index_action request, with every check up to the
\* signature's, changes neither the account store, the object store, the log
\* nor the sessions; a request goes on to its action only when every stage
\* has passed, and one that fails a stage has done nothing.
C15_NoChangeBeforeAction ==
    [][IndexStart =>
         /\ UNCHANGED <<accounts, store, seqLog, nextSeq, lock, sessions>>
         /\ \A p \in Procs : req'[p] # req[p] =>
               /\ Executing(req'[p]) /\ StagesPassed(req'[p])
               /\ req'[p].done = <<>> /\ req'[p].emitted = <<>>
         /\ resp' # None => Unwrap(resp').result # "ok" /\ Unwrap(resp').done = <<>>]_vars

\* A request with an expired message has been turned away and nothing happened.
C15_Witness ==
    /\ resp # None /\ Unwrap(resp).kind = "index_action"
    /\ Unwrap(resp).result = "SignTimeout"
    /\ \A d \in DIDs : sessions[d] = 0
    /\ Len(Chain("did:a")) = 1 /\ accounts["did:a"] # None /\ Len(seqLog) = 4

\* C16: the step of a CreateSession action issues one pair of credentials
\* for the account or fails, and leaves the object store, the account store
\* with the repo root, the log and the sequencer as they were.
C16_CreateSessionNoMutation ==
    [][\A p \in Procs :
         req[p].kind = "index_action" /\ req[p].pc = "create_session" /\ req'[p] # req[p] =>
            /\ UNCHANGED <<accounts, store, seqLog, nextSeq, lock>>
            /\ resp' # None /\ Unwrap(resp').emitted = <<>>
            /\ IF Unwrap(resp').result = "ok"
               THEN sessions' = [sessions EXCEPT ![req[p].did] = @ + 1]
               ELSE UNCHANGED sessions]_vars

\* A session has been created for did:a and its repository and events are
\* the ones it had.
C16_Witness ==
    /\ resp # None /\ Unwrap(resp).kind = "index_action"
    /\ Unwrap(resp).result = "ok" /\ Unwrap(resp).done = <<"create_session">>
    /\ sessions["did:a"] = 1
    /\ Chain("did:a") = <<GenesisCommit>>
    /\ Unwrap(accounts["did:a"]).repo_cid = Cid(GenesisCommit)
    /\ Len(seqLog) = 4

(***************************************************************************)
(* Properties of the error paths.                                          *)
(***************************************************************************)
\* C17: a create_account whose repository creation or account-record
\* creation fails returns no error before it has called destroy on the
\* object store of the identity: the failing step returns nothing and
\* changes neither the accounts nor the log, the destroy step that follows
\* leaves no repository for the identity unless destroy itself fails, and the
\* request ends with an error, with no event appended and no root set.
C17_RollbackOnFailure ==
    [][\A p \in Procs :
         req[p].kind = "create_account" /\ req'[p] # req[p] =>
            LET r == req[p]
            IN /\ r.pc = "create_repo" =>
                    /\ resp' = None /\ UNCHANGED <<accounts, seqLog, nextSeq, lock>>
                    /\ \/ req'[p].pc = "create_record" /\ store'[r.did] # None
                       \/ req'[p].pc = "destroy" /\ UNCHANGED store
               /\ r.pc = "create_record" =>
                    /\ resp' = None /\ UNCHANGED <<store, seqLog, nextSeq, lock>>
                    /\ \/ req'[p].pc = "lock" /\ accounts'[r.did] # None
                       \/ req'[p].pc = "destroy" /\ UNCHANGED accounts
               /\ r.pc = "destroy" =>
                    /\ resp' # None /\ Unwrap(resp').result \in {"RuntimeError", "StorageError"}
                    /\ Unwrap(resp').emitted = <<>>
                    /\ UNCHANGED <<accounts, seqLog, nextSeq, lock>>
                    /\ Unwrap(resp').result = "RuntimeError" => store'[r.did] = None
                    /\ Unwrap(resp').result = "StorageError" => UNCHANGED store]_vars

\* The repository of did:b was created, its account record was refused, and
\* the repository has been torn down before the error went out.
C17_Witness ==
    /\ resp # None /\ Unwrap(resp).kind = "create_account"
    /\ Unwrap(resp).did = "did:b" /\ Unwrap(resp).result = "RuntimeError"
    /\ Unwrap(resp).applyErr = "ok" /\ Unwrap(resp).emitted = <<>>
    /\ store["did:b"] = None /\ accounts["did:b"] = None
    /\ Len(seqLog) = 4

\* C19 as stated: a direct_writes request whose apply step succeeded has
\* appended exactly one event, a commit event, when it returns, and one
\* whose apply step failed has appended none.
C19_OneCommitEventPerApply ==
    resp # None /\ Unwrap(resp).kind = "direct_writes" =>
       LET o == Unwrap(resp)
       IN IF o.applyErr = "ok"
          THEN Len(o.emitted) = 1 /\ o.emitted[1].kind = "commit"
          ELSE o.emitted = <<>>

\* C19: a direct_writes request appends at most one event, a commit event
\* for the commit it applied, and only after its apply step succeeded; it has
\* appended exactly one when it returns, unless the append itself failed and
\* it returns the sequencer's error with none; a request whose apply step
\* failed appends no event and does not set the root pointer; no step of a
\* direct_writes request appends an event of another kind.
C19_CommitEventOnly ==
    [][\A p \in Procs :
         req[p].kind = "direct_writes" /\ req'[p] # req[p] =>
            LET r == req[p]
                o == IF resp' # None THEN Unwrap(resp') ELSE req'[p]
            IN /\ \/ UNCHANGED <<seqLog, nextSeq>>
                  \/ /\ r.applyErr = "ok" /\ r.emitted = <<>> /\ lock = Some(p)
                     /\ seqLog' = Append(seqLog, Event(nextSeq, "commit", r.did, "",
                                                        Some(Cid(Unwrap(r.commit)))))
                     /\ o.emitted = <<[kind |-> "commit", seq |-> nextSeq]>>
               /\ accounts' # accounts => Len(r.emitted) = 1 /\ r.applyErr = "ok"
               /\ resp' # None =>
                    /\ o.applyErr # "ok" => o.emitted = <<>> /\ UNCHANGED <<accounts, seqLog>>
                    /\ o.applyErr = "ok" /\ o.result # "SequencerError" =>
                          Len(o.emitted) = 1 /\ o.emitted[1].kind = "commit"
                    /\ o.result = "SequencerError" => o.emitted = <<>> /\ o.applyErr = "ok"]_vars

\* A direct_writes request has succeeded: the log ends with its one commit
\* event and the root pointer names its commit.
C19_Witness ==
    /\ resp # None /\ Unwrap(resp).kind = "direct_writes" /\ Unwrap(resp).result = "ok"
    /\ Len(Unwrap(resp).emitted) = 1
    /\ seqLog[Len(seqLog)].kind = "commit"
    /\ seqLog[Len(seqLog)].seq = Unwrap(resp).emitted[1].seq
    /\ seqLog[Len(seqLog)].commit = Some(Unwrap(accounts[Unwrap(resp).did]).repo_cid)
    /\ Len(seqLog) = 5

\* The events a request of this kind appends when everything goes well.
RequiredEvents(r) ==
    IF r.kind = "create_account" THEN 4
    ELSE IF r.kind = "direct_writes" THEN 1
    ELSE IF r.kind = "index_action" /\ r.index = "DeleteAccountIndex" THEN 1
    ELSE 0

\* The positions at which a handler appends to the sequencer.
AppendPcs == {"seq_identity", "seq_account", "seq_commit", "seq_sync"}

\* C18: when an append to the sequencer fails in create_account, in
\* direct_writes or in the DeleteAccount action, the step ends the request
\* with an error and gives the lock back; the account store with its root
\* pointer, the object store with the commit already persisted, and the log
\* stay as they are, and the request does nothing more. A request that
\* reports success, or gets as far as setting the root pointer, has appended
\* every event required of it.
C18_NoSuccessWithoutEvents ==
    [][\A p \in Procs :
         /\ req[p].pc \in AppendPcs /\ req'[p] # req[p] /\ seqLog' = seqLog =>
               /\ resp' # None /\ Unwrap(resp').result # "ok"
               /\ Len(Unwrap(resp').emitted) < RequiredEvents(req[p])
               /\ req'[p] = Idle /\ lock' = None
               /\ UNCHANGED <<accounts, store, nextSeq, sessions>>
         /\ req'[p].pc = "update_root" => Len(req'[p].emitted) = RequiredEvents(req'[p])
         /\ accounts' # accounts /\ req[p].pc = "update_root" /\ req'[p] # req[p] =>
               Len(req[p].emitted) = RequiredEvents(req[p])
         /\ resp' # None /\ Unwrap(resp').result = "ok" =>
               Len(Unwrap(resp').emitted) = RequiredEvents(Unwrap(resp'))]_vars

\* The append of a direct_writes request failed: its commit is the head of
\* the repository, no event announces it and the root pointer has not moved.
C18_Witness ==
    /\ resp # None /\ Unwrap(resp).kind = "direct_writes"
    /\ Unwrap(resp).result = "SequencerError" /\ Unwrap(resp).emitted = <<>>
    /\ Len(Chain("did:a")) = 2
    /\ accounts["did:a"] # None
    /\ Unwrap(accounts["did:a"]).repo_cid = Cid(Chain("did:a")[1])
    /\ \A i \in DOMAIN seqLog : seqLog[i].commit # Some(Cid(Chain("did:a")[2]))

\* The sequence numbers of the events one request appended follow one another.
Contiguous(em) == \A i \in DOMAIN em : i > 1 => em[i].seq = em[i - 1].seq + 1

\* C20: a request appends to the sequencer only while it holds the write
\* lock, which no other request holds at the same time, and the sequence
\* numbers of the events one request appended are consecutive: no event of
\* another request lies between them.
C20_EmitUnderLock ==
    /\ \A p \in Procs :
          /\ Contiguous(req[p].emitted)
          /\ req[p].pc \in AppendPcs \cup {"compact"} => lock = Some(p)
          /\ req[p].emitted # <<>> /\ req[p].pc \in AppendPcs =>
                req[p].emitted[Len(req[p].emitted)].seq = nextSeq - 1
    /\ resp # None => Contiguous(Unwrap(resp).emitted)

\* A create_account request is in the middle of its events while a
\* direct_writes request or a DeleteAccount action waits for the lock.
C20_Witness ==
    \E p, q \in Procs :
       /\ req[p].kind = "create_account" /\ Len(req[p].emitted) = 2
       /\ req[q].kind \in {"direct_writes", "index_action"} /\ req[q].pc = "lock"
       /\ lock = Some(p)

\* The steps a handler takes while it holds the sequencer's lock.
HeldPcs == {"seq_identity", "seq_account", "seq_commit", "seq_sync", "update_root", "compact"}

\* C21: the lock is held by a task exactly while it is between its acquisition
\* and its return, so every return (the error returns between the appends,
\* after a failed root update or a failed compaction, and the success) has
\* released it; and with a fair lock and calls that return, every task that
\* waits for the lock gets it.
C21_LockReleasedAndGranted ==
    /\ [](\A p \in Procs : (lock = Some(p)) <=> (req[p].pc \in HeldPcs))
    /\ \A p \in Procs : (req[p].pc = "lock") ~> (lock = Some(p))

\* A task waits for the lock that another one has just released on an error
\* return after its append.
C21_Witness ==
    \E p \in Procs :
       /\ req[p].pc = "lock"
       /\ lock = None
       /\ resp # None
       /\ Unwrap(resp).result \notin {"ok"}
       /\ Unwrap(resp).emitted # <<>>

\* The task p is dropped by this step: it was handling a request, it is idle
\* afterwards, and no response goes out.
Dropped(p) == req[p].pc # "idle" /\ req'[p] = Idle /\ resp' = None

\* C22: when a direct_writes or create_account request is cancelled after its
\* commit was persisted, the commit has its Commit event in the log or is no
\* longer in the object store.
C22_CancelKeepsStoreAndLog ==
    [][\A p \in Procs :
         (Dropped(p) /\ req[p].commit # None /\ store[req[p].did] # None
                     /\ \E i \in DOMAIN Unwrap(store[req[p].did]).commits :
                          Unwrap(store[req[p].did]).commits[i] = Unwrap(req[p].commit))
         => LET r == req[p]
                c == Unwrap(r.commit)
            IN \/ \E i \in DOMAIN seqLog' :
                    /\ seqLog'[i].kind = "commit" /\ seqLog'[i].did = r.did
                    /\ seqLog'[i].commit = Some(Cid(c))
               \/ store'[r.did] = None
               \/ \A i \in DOMAIN Unwrap(store'[r.did]).commits :
                    Unwrap(store'[r.did]).commits[i] # c]_vars

\* The call fn has been evaluated.
Returned(fn) == call.fn = fn /\ call.out # None

\* The ledger has no binding for the address of the lookup a: the explorer's
\* body is empty or lists no cell, or the cell it lists is not live any more.
NoBinding(a) ==
    /\ a.addr_ok
    /\ \/ a.explorer \in {"empty", "cells_empty"}
       \/ a.explorer = "cell" /\ a.node = "not_live"

\* C23: get_didoc_from_chain fails with CkbDidocCellNotFound exactly when the
\* ledger has no binding for the address, an empty body and a cell that is no
\* longer live included; a lookup that cannot complete and a document that
\* cannot be decoded never give CkbDidocCellNotFound.
C23_NotFoundIffNoBinding ==
    Returned("get_didoc_from_chain")
    => ((Unwrap(call.out).tag = "CkbDidocCellNotFound") <=> NoBinding(call.args))

\* C24: timestamp_check is true for every timestamp later than the clock and
\* for every one less than 120 seconds behind it, and false for one that is
\* 120 seconds or more behind.
C24_TimestampCheckWindow ==
    Returned("timestamp_check")
    => LET now == call.args.now
           t == call.args.ts
           fresh == Unwrap(call.out)
       IN /\ t > now => fresh
          /\ (t <= now /\ now - t < 120) => fresh
          /\ (t <= now /\ now - t >= 120) => ~fresh

\* A timestamp 120 seconds or more ahead of the clock passes.
C24_Witness ==
    /\ Returned("timestamp_check")
    /\ call.args.ts >= call.args.now + 120
    /\ Unwrap(call.out)

\* The lines of a message that start with the timestamp's label.
TimestampLines(message) ==
    {i \in DOMAIN message : message[i] # <<>> /\ message[i][1] = "Timestamp: "}

\* C25: extract_timestamp fails when no line starts with "Timestamp: "; when
\* one does, the first of them decides: the call returns the number on it, or
\* fails when what follows the label is no u64, whatever the later lines say.
C25_ExtractTimestampFirstLine ==
    Returned("extract_timestamp")
    => LET m == call.args.message
           out == Unwrap(call.out)
           tl == TimestampLines(m)
       IN IF tl = {} THEN ~out.ok
          ELSE LET first == CHOOSE i \in tl : \A j \in tl : i <= j
                   value == Trim(TrimStartMatches(m[first], "Timestamp: "))
               IN /\ out.ok <=> (value # <<>> /\ \A k \in DOMAIN value : IsDigit(value[k]))
                  /\ out.ok => FormatU64(out.n) = value

\* The first timestamp line does not parse and the call fails although a
\* later line carries a number.
C25_Witness ==
    /\ Returned("extract_timestamp")
    /\ ~Unwrap(call.out).ok
    /\ \E i \in TimestampLines(call.args.message) :
          ParseU64(Trim(TrimStartMatches(call.args.message[i], "Timestamp: "))).ok

\* Some line of the message holds the statement of the action.
HoldsStatement(message, index) ==
    \E i \in DOMAIN message : \E j \in DOMAIN message[i] :
       message[i][j] = (IF index = "CreateSessionIndex" THEN "create session"
                        ELSE "delete account")

\* C26: statement_check returns Ok(true) exactly when some line of the message
\* holds the statement and an error otherwise, never Ok(false); and the checks
\* of index_action answer a message without the statement before they come to
\* the signature.
C26_StatementTrueOrError ==
    /\ Returned("statement_check")
       => LET out == Unwrap(call.out)
          IN /\ out.ok <=> HoldsStatement(call.args.message, call.args.index)
             /\ out.ok => out.val
    /\ (Returned("index_action_checks")
        /\ ~HoldsStatement(call.args.message, call.args.index))
       => Unwrap(call.out) \notin {"ok", "SignatureDecodeError", "RuntimeError"}

\* A message without the statement is answered with the statement error
\* although its signature does not even decode.
C26_Witness ==
    /\ Returned("index_action_checks")
    /\ Unwrap(call.out) = "StatementCheckError"
    /\ call.args.signed_bytes.body = None

StageResults(a) ==
    LET user == Unwrap(GetAccount(accounts, "did:a"))
        doc == a.resolved.doc
        ts == ExtractTimestamp(a.message)
    IN << IF a.resolved.tag # "Ok" THEN a.resolved.tag ELSE "ok",
          IF a.resolved.tag # "Ok" THEN "ok"
          ELSE IF Len(doc.also_known_as) = 0 \/ doc.also_known_as[1][1] # "at://"
          THEN "IncompatibleDidDoc"
          ELSE IF user.handle # Some(doc.also_known_as[1][2]) THEN "InvalidHandle"
          ELSE "ok",
          IF a.resolved.tag = "Ok" /\ a.signing_key \notin doc.verification_methods
          THEN "SigningKeyInconsistent" ELSE "ok",
          IF ~ts.ok THEN "TimestampError"
          ELSE IF ~TimestampCheck(a.now, ts.n) THEN "SignTimeout" ELSE "ok",
          IF ~HoldsStatement(a.message, a.index) THEN "StatementCheckError" ELSE "ok",
          IF a.signed_bytes.body = None THEN "SignatureDecodeError"
          ELSE IF ~VerifySignature(a.signing_key, Sha256(a.message),
                                   Unwrap(a.signed_bytes.body))
          THEN "RuntimeError" ELSE "ok" >>

\* C28: index_action answers with the error of the earliest stage that fails,
\* and goes on to the action only when no stage fails.
C28_EarliestFailingStage ==
    Returned("index_action_checks")
    => LET st == StageResults(call.args)
           failing == {i \in DOMAIN st : st[i] # "ok"}
       IN Unwrap(call.out) = IF failing = {} THEN "ok"
                             ELSE st[CHOOSE i \in failing : \A j \in failing : i <= j]

\* The root pointer of the account of did, if it has one.
RootOf(accts, did) ==
    IF accts[did] = None THEN None
    ELSE Some(<<Unwrap(accts[did]).repo_cid, Unwrap(accts[did]).repo_rev>>)

\* The task p makes its update_repo_root call in this step.
UpdatesRoot(p) ==
    /\ req[p].kind \in {"direct_writes", "create_account"}
    /\ req[p].pc = "update_root"
    /\ req'[p] = Idle

\* C29: create_account and direct_writes call update_repo_root only when the
\* request has its commit and has appended every event required of it; a call
\* that succeeds sets the root pointer to the cid and the revision of the
\* commit that the request's Commit event announces; and the root pointer of
\* an account moves in no other step.
C29_RootAfterEvents ==
    [][/\ \A p \in Procs :
            UpdatesRoot(p) =>
              LET r == req[p]
                  c == Unwrap(r.commit)
              IN /\ r.commit # None
                 /\ Len(r.emitted) = RequiredEvents(r)
                 /\ \E k \in DOMAIN r.emitted :
                      /\ r.emitted[k].kind = "commit"
                      /\ \E i \in DOMAIN seqLog :
                           /\ seqLog[i].seq = r.emitted[k].seq
                           /\ seqLog[i].did = r.did
                           /\ seqLog[i].commit = Some(Cid(c))
                 /\ (Unwrap(resp').result = "ok" /\ accounts[r.did] # None)
                    => RootOf(accounts', r.did) = Some(<<Cid(c), c.rev>>)
                 /\ Unwrap(resp').result # "ok" => accounts' = accounts
       /\ \A d \in DIDs :
            (accounts[d] # None /\ accounts'[d] # None
             /\ RootOf(accounts', d) # RootOf(accounts, d))
            => \E p \in Procs : UpdatesRoot(p) /\ req[p].did = d]_vars

\* A direct_writes request has answered ok: the root pointer is at the commit
\* it applied, one revision after the genesis commit.
C29_Witness ==
    /\ resp # None
    /\ Unwrap(resp).kind = "direct_writes"
    /\ Unwrap(resp).result = "ok"
    /\ LET d == Unwrap(resp).did
       IN /\ accounts[d] # None /\ store[d] # None
          /\ RootOf(accounts, d) = Some(<<HeadCid(Unwrap(store[d])), 2>>)

\* C30: create_account goes on only when the resolver reports that the
\* address has no DID cell; when it returns a document the request is answered
\* "Already apply did", and any other error of the resolver is the answer; in
\* both cases the account store, the object store and the log stay as they
\* are. A request that went on carries the resolver's CkbDidocCellNotFound.
C30_CreateOnlyWhenNotFound ==
    [][/\ started' = started + 1 =>
            \/ /\ resp' = None
               /\ \E p \in Procs :
                    /\ req[p].pc = "idle" /\ req'[p].pc = "create_repo"
                    /\ Unwrap(req'[p].resolved).tag = "CkbDidocCellNotFound"
            \/ /\ resp' # None
               /\ LET o == Unwrap(resp')
                      x == Unwrap(o.resolved)
                  IN /\ o.kind = "create_account"
                     /\ x.tag # "CkbDidocCellNotFound"
                     /\ o.result = IF x.tag = "Ok" THEN "AlreadyApplyDid" ELSE x.tag
               /\ UNCHANGED <<accounts, store, seqLog, nextSeq, lock, req>>
       /\ \A p \in Procs :
            req'[p].kind = "create_account"
            => Unwrap(req'[p].resolved).tag = "CkbDidocCellNotFound"]_vars

\* The resolver returned a document for the address: the request is answered
\* "Already apply did" and the identity has no repository and no account.
C30_Witness ==
    /\ resp # None
    /\ Unwrap(resp).kind = "create_account"
    /\ Unwrap(resp).result = "AlreadyApplyDid"
    /\ Unwrap(resp).resolved # None
    /\ Unwrap(Unwrap(resp).resolved).tag = "Ok"
    /\ store["did:b"] = None /\ accounts["did:b"] = None /\ Len(seqLog) = 4

\* C31: a session is issued only by a CreateSession action whose request has
\* a resolved document for its address with the request's signing key among
\* the document's verification methods; none is issued when the resolver
\* reported that the address has no DID cell.
C31_SessionOnlyWithDocument ==
    [][\A d \in DIDs :
         sessions'[d] # sessions[d] =>
            \E p \in Procs :
               /\ req[p].kind = "index_action" /\ req[p].pc = "create_session"
               /\ req[p].index = "CreateSessionIndex" /\ req[p].did = d
               /\ LET res == Unwrap(req[p].resolved)
                  IN /\ res.tag = "Ok"
                     /\ req[p].key \in res.doc.verification_methods]_vars

\* No request is being handled and no response is on its way.
Quiescent == resp = None /\ \A p \in Procs : req[p].pc = "idle"

\* C32: when the direct_writes requests for an account have completed, each
\* one that applied a commit with the answer Ok, the root pointer of the
\* account is at the cid and the revision of the head of its repository.
C32_RootAtHeadWhenSettled ==
    Quiescent =>
       \A d \in DIDs :
          (accounts[d] # None /\ store[d] # None)
          => RootOf(accounts, d) = Some(<<HeadCid(Unwrap(store[d])),
                                          HeadCommit(Unwrap(store[d])).rev>>)

\* The position in the repository of did of the commit with the cid c, or 0.
PositionOf(did, c) ==
    LET at == {k \in DOMAIN Chain(did) : Some(Cid(Chain(did)[k])) = c}
    IN IF at = {} THEN 0 ELSE CHOOSE k \in at : TRUE

\* C33: the Commit events of an account are in the log in the order in which
\* their commits were applied to its repository, that is by increasing
\* revision.
C33_CommitEventsInApplyOrder ==
    \A i, j \in DOMAIN seqLog :
       (i < j /\ seqLog[i].kind = "commit" /\ seqLog[j].kind = "commit"
        /\ seqLog[i].did = seqLog[j].did
        /\ PositionOf(seqLog[i].did, seqLog[i].commit) > 0
        /\ PositionOf(seqLog[j].did, seqLog[j].commit) > 0)
       => /\ PositionOf(seqLog[i].did, seqLog[i].commit)
               < PositionOf(seqLog[j].did, seqLog[j].commit)
          /\ Chain(seqLog[i].did)[PositionOf(seqLog[i].did, seqLog[i].commit)].rev
               < Chain(seqLog[j].did)[PositionOf(seqLog[j].did, seqLog[j].commit)].rev

\* C34: when no request is in progress, every identity that has an account
\* record has contents in the object store.
C34_AccountHasStore ==
    Quiescent => \A d \in DIDs : accounts[d] # None => store[d] # None

C36_WritesOnlyAfterChecks ==
    [][\A p \in Procs :
         (req[p].pc = "idle" /\ req'[p].pc \in {"verify", "generate"})
         => LET r == req'[p]
                account == accounts[r.did]
            IN /\ account # None
               /\ ~Unwrap(account).deactivated
               /\ r.auth = Some([did |-> Some(Unwrap(account).did)])
               /\ r.pc = "verify"
                  => /\ Some(r.addr) \in GuardEnv.addrs
                     /\ Unwrap(account).ckb_address = Some(r.addr)
                     /\ Unwrap(r.resolved).tag = "Ok"
                     /\ r.key \in Unwrap(r.resolved).doc.verification_methods]_vars

\* One request has gone on to verify_writes and another to generate_commit.
C36_Witness ==
    \E p, q \in Procs :
        /\ req[p].kind = "direct_writes" /\ req[p].pc = "verify"
        /\ req[q].kind = "pre_direct_writes" /\ req[q].pc = "generate"

====
